---- MODULE Spec2Model ----
(***************************************************************************)
(* State-machine model of the paper_search acquisition core:              *)
(*   download_history.py  DownloadHistory (persisted title -> record map)  *)
(*   download_manager.py  DownloadManager (download_pdf, download_multiple) *)
(*   search_history.py    SearchHistory   (persisted query log)            *)
(*   search_engines.py    the three engines and SearchManager.search_all   *)
(*                                                                         *)
(* Python strings are sequences of one-character strings, so that lower(), *)
(* strip(), split(), re.sub() and the substring tests of the code are      *)
(* computed and not assumed.  Two symbols stand for fixed multi-character  *)
(* phrases: "@" for the phrase the duplicate message starts with and the   *)
(* message prefixes "OK:", "FAIL:", "ERROR:" and so on.                     *)
(***************************************************************************)
EXTENDS Integers, Sequences, FiniteSets, TLC

VARIABLES
    history,    \* DownloadHistory.history: normalized title -> download record
    disk_doc,   \* the download history file on disk
    files,      \* the download directory: file name -> file
    now,        \* the calendar day datetime.now() reports
    last,       \* the last call of a public operation and what it returned
    batch,      \* the download_multiple call in progress, or its result
    searches,   \* SearchHistory.history: the query records, most recent first
    search_doc, \* the search history file on disk
    slast,      \* the last call of an operation of the search history
    config,     \* the class attributes of Config the searches read
    search,     \* the search_all call in progress, or its result
    pure,       \* the last call of a function without effects, and its result
    scholar,    \* the position and the browser of _search_with_selenium
    peer        \* the DownloadHistory of a second process on the same file

download_vars == <<history, disk_doc, files, last, batch>>

store_vars == <<searches, search_doc, slast>>

search_vars == <<config, search>>

aux_vars == <<pure, scholar, peer>>

vars == <<history, disk_doc, files, now, last, batch, searches, search_doc, slast,
          config, search, pure, scholar, peer>>

-----------------------------------------------------------------------------
(* Bounds of the model *)

MaxFiles == 2       \* files the download directory may hold
MaxDay == 1         \* last calendar day of a run
MaxChunks == 1      \* non-empty chunks of a response body
MaxBatch == 3       \* papers of one download_multiple call
MaxTitleLen == 4    \* characters of a title _normalize_title is called with
MaxBodyChunks == 3  \* chunks of a body whose progress is reported
MaxChunkSize == 2   \* bytes of one such chunk

-----------------------------------------------------------------------------
(* String helpers: what the Python built-ins the code calls compute *)

\* the whitespace str.strip() and str.split() take off (the blank and the
\* tab of it)
Whitespace == {" ", "\t"}

UpperCase == <<"A", "B", "C", "D", "E", "F", "G", "H", "I", "J", "K", "L", "M",
               "N", "O", "P", "Q", "R", "S", "T", "U", "V", "W", "X", "Y", "Z">>

LowerCase == <<"a", "b", "c", "d", "e", "f", "g", "h", "i", "j", "k", "l", "m",
               "n", "o", "p", "q", "r", "s", "t", "u", "v", "w", "x", "y", "z">>

LowerChar(c) ==
    IF \E i \in 1..Len(UpperCase) : UpperCase[i] = c
    THEN LowerCase[CHOOSE i \in 1..Len(UpperCase) : UpperCase[i] = c]
    ELSE c

Lower(s) == [i \in 1..Len(s) |-> LowerChar(s[i])]

RECURSIVE LStrip(_)
LStrip(s) == IF s # <<>> /\ s[1] \in Whitespace THEN LStrip(Tail(s)) ELSE s

RECURSIVE RStrip(_)
RStrip(s) ==
    IF s # <<>> /\ s[Len(s)] \in Whitespace
    THEN RStrip(SubSeq(s, 1, Len(s) - 1))
    ELSE s

Strip(s) == RStrip(LStrip(s))

\* str.split(): the maximal runs of non-whitespace characters, in order
RECURSIVE SplitFrom(_, _, _)
SplitFrom(s, word, acc) ==
    IF s = <<>>
    THEN IF word = <<>> THEN acc ELSE Append(acc, word)
    ELSE IF s[1] \in Whitespace
         THEN SplitFrom(Tail(s), <<>>, IF word = <<>> THEN acc ELSE Append(acc, word))
         ELSE SplitFrom(Tail(s), Append(word, s[1]), acc)

Split(s) == SplitFrom(s, <<>>, <<>>)

\* ' '.join(words)
RECURSIVE Join(_)
Join(words) ==
    IF words = <<>> THEN <<>>
    ELSE IF Len(words) = 1 THEN words[1]
    ELSE words[1] \o <<" ">> \o Join(Tail(words))

\* sub in s
Contains(sub, s) ==
    \E i \in 1..(Len(s) - Len(sub) + 1) : SubSeq(s, i, i + Len(sub) - 1) = sub

\* s.replace(sub, ''), for a sub that is not empty
RECURSIVE Remove(_, _)
Remove(sub, s) ==
    IF Len(s) < Len(sub) THEN s
    ELSE IF SubSeq(s, 1, Len(sub)) = sub
         THEN Remove(sub, SubSeq(s, Len(sub) + 1, Len(s)))
         ELSE <<Head(s)>> \o Remove(sub, Tail(s))

\* str(n) for a natural number
RECURSIVE Decimal(_)
Decimal(n) ==
    LET d == <<"0", "1", "2", "3", "4", "5", "6", "7", "8", "9">>[(n % 10) + 1]
    IN  IF n < 10 THEN <<d>> ELSE Append(Decimal(n \div 10), d)

\* a call of a function without effects: its name, arguments and result
PureCall(fn, args, result) == [fn |-> fn, args |-> args, result |-> result]

NoPure == PureCall("none", <<>>, <<>>)

-----------------------------------------------------------------------------
(* download_history.py: DownloadHistory *)

\* an optional string: None, or a text (possibly empty)
NoneUrl == [none |-> TRUE, text |-> <<>>]

Url(s) == [none |-> FALSE, text |-> s]

\* the truth value Python gives an optional string
Truthy(url) == ~url.none /\ url.text # <<>>

EmptyHistory == [k \in {} |-> 0]

MissingDoc == [kind |-> "missing", value |-> EmptyHistory]

CorruptDoc == [kind |-> "corrupt", value |-> EmptyHistory]

JsonDoc(h) == [kind |-> "json", value |-> h]

\* a bug _load_history could have: what is left of a file that cannot be
\* parsed is taken for a history
_load_history_partial(doc) ==
    CASE doc.kind = "json" -> doc.value
      [] doc.kind = "corrupt" ->
            (<<"?">> :> [title |-> <<"?">>, file_path |-> <<>>, pdf_url |-> <<>>,
                         download_date |-> 0, has_date_only |-> TRUE, date_only |-> 0])
      [] OTHER -> EmptyHistory

\* DownloadHistory._load_history: the parsed document, {} when the file is
\* missing or json.load raises
_load_history(doc) == IF doc.kind = "json" THEN doc.value ELSE EmptyHistory

\* a version of _save_history that keeps the records the file holds and the
\* memory does not
_save_history_merged(h, doc, save) ==
    CASE save = "ok" -> JsonDoc(h @@ (IF doc.kind = "json" THEN doc.value ELSE EmptyHistory))
      [] save = "open_fail" -> doc
      [] OTHER -> CorruptDoc

\* DownloadHistory._save_history: rewrites the whole document; an exception
\* (the file cannot be opened, or the dump fails after the file was
\* truncated) is printed and swallowed
_save_history(h, doc, save) ==
    CASE save = "ok" -> JsonDoc(h)
      [] save = "open_fail" -> doc
      [] OTHER -> CorruptDoc

\* a bug _normalize_title could have: the case of the title is kept
_normalize_title_cased(title) == Join(Split(Strip(title)))

_normalize_title(title) == Join(Split(Strip(Lower(title))))

\* a bug is_downloaded could have: the title is looked up as it is spelled
is_downloaded_raw(h, paper_title) == paper_title \in DOMAIN h


is_downloaded(h, paper_title) == _normalize_title(paper_title) \in DOMAIN h

\* history.get(key): the record, or None
get_download_info(h, paper_title) ==
    LET key == _normalize_title(paper_title)
    IN  IF key \in DOMAIN h THEN {h[key]} ELSE {}

DownloadRecord(paper_title, file_path, pdf_url, day) ==
    [title |-> paper_title, file_path |-> file_path, pdf_url |-> pdf_url,
     download_date |-> day, has_date_only |-> TRUE, date_only |-> day]

\* add_download: the new in-memory map and the new document
add_download(h, doc, paper_title, file_path, pdf_url, day, save) ==
    LET key == _normalize_title(paper_title)
        h2 == (key :> DownloadRecord(paper_title, file_path, pdf_url, day)) @@ h
    IN  [history |-> h2, disk_doc |-> _save_history(h2, doc, save)]

\* a bug remove_download could have: the record is deleted in memory only
remove_download_unsaved(h, doc, paper_title, save) ==
    LET key == _normalize_title(paper_title)
        h2 == [k \in DOMAIN h \ {key} |-> h[k]]
    IN  [history |-> h2, disk_doc |-> doc]

\* remove_download: a title without a record changes nothing and writes nothing
remove_download(h, doc, paper_title, save) ==
    LET key == _normalize_title(paper_title)
        h2 == [k \in DOMAIN h \ {key} |-> h[k]]
    IN  IF key \in DOMAIN h
        THEN [history |-> h2, disk_doc |-> _save_history(h2, doc, save)]
        ELSE [history |-> h, disk_doc |-> doc]

clear_history(h, doc, save) ==
    [history |-> EmptyHistory, disk_doc |-> _save_history(EmptyHistory, doc, save)]

-----------------------------------------------------------------------------
(* search_history.py: SearchHistory *)

HistoryCap == 100

\* SearchHistory._load_history: the parsed list, [] when the file is missing
\* or json.load raises
_load_search_history(doc) == IF doc.kind = "json" THEN doc.value ELSE <<>>

\* SearchHistory._save_history
_save_search_history(sh, doc, save) ==
    CASE save = "ok" -> JsonDoc(sh)
      [] save = "open_fail" -> doc
      [] OTHER -> CorruptDoc

SameQuery(record, keywords, exclude_keywords) ==
    record.keywords = keywords /\ record.exclude_keywords = exclude_keywords

\* "sources or []": sources is None or a list
SourcesOrEmpty(sources) == IF sources.none THEN <<>> ELSE sources.list

\* add_search, lines 52-61: the first record of the same query is updated
\* where it stands
update_search(sh, i, sources, results_count, t) ==
    [sh EXCEPT ![i] = [@ EXCEPT !.last_search_time = t,
                                !.search_count = @ + 1,
                                !.sources = SourcesOrEmpty(sources),
                                !.results_count = results_count]]

\* a bug add_search could have: the list is not cut
insert_search_uncut(sh, keywords, exclude_keywords, sources, results_count, t) ==
    <<[keywords |-> keywords, exclude_keywords |-> exclude_keywords,
       sources |-> SourcesOrEmpty(sources), results_count |-> results_count,
       first_search_time |-> t, last_search_time |-> t, search_count |-> 1]>> \o sh

\* add_search, lines 63-78: a new record goes to the front and the list is
\* cut to its first HistoryCap records
insert_search(sh, keywords, exclude_keywords, sources, results_count, t) ==
    LET record == [keywords |-> keywords, exclude_keywords |-> exclude_keywords,
                   sources |-> SourcesOrEmpty(sources),
                   results_count |-> results_count,
                   first_search_time |-> t, last_search_time |-> t,
                   search_count |-> 1]
        longer == <<record>> \o sh
    IN  IF Len(longer) > HistoryCap THEN SubSeq(longer, 1, HistoryCap) ELSE longer

\* a bug add_search could have: a repeated query gets a second record
add_search_twice(sh, doc, keywords, exclude_keywords, sources, results_count, t, save) ==
    LET sh2 == insert_search(sh, keywords, exclude_keywords, sources,
                             results_count, t)
    IN  [searches |-> sh2, search_doc |-> _save_search_history(sh2, doc, save)]

add_search(sh, doc, keywords, exclude_keywords, sources, results_count, t, save) ==
    LET same == { i \in 1..Len(sh) : SameQuery(sh[i], keywords, exclude_keywords) }
        first == CHOOSE i \in same : \A j \in same : i <= j
        sh2 == IF same # {}
               THEN update_search(sh, first, sources, results_count, t)
               ELSE insert_search(sh, keywords, exclude_keywords, sources,
                                  results_count, t)
    IN  [searches |-> sh2, search_doc |-> _save_search_history(sh2, doc, save)]

\* remove_search: index counts from 0; an index outside the list does nothing
remove_search(sh, doc, index, save) ==
    LET sh2 == SubSeq(sh, 1, index) \o SubSeq(sh, index + 2, Len(sh))
    IN  IF 0 <= index /\ index < Len(sh)
        THEN [searches |-> sh2, search_doc |-> _save_search_history(sh2, doc, save)]
        ELSE [searches |-> sh, search_doc |-> doc]

\* get_recent_searches: self.history[:limit], for a limit that is not negative
get_recent_searches(sh, limit) ==
    SubSeq(sh, 1, IF limit < Len(sh) THEN limit ELSE Len(sh))

\* get_last_search: the first record, or None
get_last_search(sh) == IF sh # <<>> THEN {sh[1]} ELSE {}

clear_search_history(sh, doc, save) ==
    [searches |-> <<>>, search_doc |-> _save_search_history(<<>>, doc, save)]

\* a call of the search history and what became of its write of the file
SCall(op, save) == [op |-> op, save |-> save]

\* a call of add_search: the query and the outcome it is called with too
AddCall(q, o, save) ==
    [op |-> "add_search", save |-> save, keywords |-> q.keywords,
     exclude_keywords |-> q.exclude_keywords, sources |-> o.sources,
     results_count |-> o.results_count]

-----------------------------------------------------------------------------
(* download_manager.py: DownloadManager *)

MaxFilenameLen == 200

IllegalChars == {"<", ">", ":", "\"", "/", "\\", "|", "?", "*"}

PdfExt == <<".", "p", "d", "f">>

sanitize_filename(filename) ==
    LET kept == SelectSeq(filename, LAMBDA c : c \notin IllegalChars)
        cut == IF Len(kept) > MaxFilenameLen
               THEN SubSeq(kept, 1, MaxFilenameLen)
               ELSE kept
    IN  Strip(cut)

\* the while loop of download_pdf: name_1.pdf, name_2.pdf, ... until free
RECURSIVE next_free(_, _, _)
next_free(fs, base, counter) ==
    LET p == base \o <<"_">> \o Decimal(counter) \o PdfExt
    IN  IF p \in DOMAIN fs THEN next_free(fs, base, counter + 1) ELSE p

\* a bug choose_filepath could have: the name is taken without looking
choose_filepath_unchecked(fs, title) == sanitize_filename(title) \o PdfExt

\* the file name download_pdf settles on (inside the download directory)
choose_filepath(fs, title) ==
    LET base == sanitize_filename(title)
    IN  IF (base \o PdfExt) \in DOMAIN fs
        THEN next_free(fs, base, 1)
        ELSE base \o PdfExt

\* the phrase of the duplicate message that download_multiple looks for
DupMarker == <<"@">>

MsgNoUrl == <<"NO_PDF_LINK">>

MsgDuplicate == DupMarker \o <<"(", "date", ")">>

MsgSuccess(filepath) == <<"OK:">> \o filepath

MsgNotPdf == <<"NOT_A_PDF">>

MsgTimeout == <<"TIMEOUT">>

MsgFailed(text) == <<"FAIL:">> \o text

MsgError(text) == <<"ERROR:">> \o text

\* str(e) of the exceptions the environment can raise
NetErrorText == <<"connection", "error">>

HttpErrorText == <<"404">>

StreamErrorText == <<"connection", "broken">>

OpenErrorText(filepath) == <<"errno", ":">> \o filepath

WriteErrorText == <<"errno", "no", "space">>

NoDate == 0 - 1

\* what a call of download_pdf returns (ok, msg, path; date is the date the
\* message quotes) and the state it leaves; raised: an exception left the
\* call instead.  kind names the return statement taken and events lists the
\* I/O of the call in program order.
Outcome(raised, ok, kind, msg, path, date, h, doc, fs, events) ==
    [raised |-> raised, ok |-> ok, kind |-> kind, msg |-> msg, path |-> path,
     date |-> date, history |-> h, disk_doc |-> doc, files |-> fs,
     events |-> events]

\* a file of the download directory: whose download wrote it, how many
\* chunks it holds and whether the body was written to its end
NewFile(complete, title, size) ==
    [complete |-> complete, title |-> title, size |-> size]

\* what the network and the file system do to one call of download_pdf:
\* net is what requests.get and raise_for_status do, ctype_pdf whether the
\* content type names a PDF, open_ok whether open() succeeds, chunks the
\* number of non-empty chunks of the body, fail what goes wrong while the
\* body is streamed (after cut chunks were written) and save what happens to
\* the history file
Env(net, ctype_pdf, open_ok, chunks, fail, cut, save) ==
    [net |-> net, ctype_pdf |-> ctype_pdf, open_ok |-> open_ok,
     chunks |-> chunks, fail |-> fail, cut |-> cut, save |-> save]

SaveResults == {"ok", "open_fail", "dump_fail"}

Envs ==
    { Env(n, TRUE, TRUE, 0, "none", 0, "ok") :
        n \in {"timeout", "conn_error", "http_error"} }
    \cup { Env("ok", c, FALSE, 0, "none", 0, "ok") : c \in BOOLEAN }
    \cup { Env("ok", c, TRUE, n, "none", n, s) :
             c \in BOOLEAN, n \in 0..MaxChunks, s \in SaveResults }
    \cup { Env("ok", c, TRUE, x[1], "stream", x[2], "ok") :
             c \in BOOLEAN,
             x \in { y \in (0..MaxChunks) \X (0..MaxChunks) : y[2] <= y[1] } }
    \cup { Env("ok", c, TRUE, x[1], "write", x[2], "ok") :
             c \in BOOLEAN,
             x \in { y \in (0..MaxChunks) \X (0..MaxChunks) : y[2] < y[1] } }

\* the environments the papers of a batch meet: one of each outcome
BatchEnvs ==
    { Env("conn_error", TRUE, TRUE, 0, "none", 0, "ok"),
      Env("ok", FALSE, FALSE, 0, "none", 0, "ok"),
      Env("ok", TRUE, TRUE, 1, "stream", 0, "ok"),
      Env("ok", FALSE, TRUE, 1, "none", 1, "ok"),
      Env("ok", TRUE, TRUE, 1, "none", 1, "ok") }

\* the environment of a call that returns before its try block
NoEnv ==
    [net |-> "ok", ctype_pdf |-> TRUE, open_ok |-> TRUE, chunks |-> 0,
     fail |-> "none", cut |-> 0, save |-> "ok"]

\* the environments among envs that make a difference to a call
EnvsFor(envs, h, url, title) ==
    IF Truthy(url) /\ ~is_downloaded(h, title) THEN envs ELSE {NoEnv}

IsPdfResponse(url, env) ==
    env.ctype_pdf \/ Contains(<<"p", "d", "f">>, Lower(url.text))

\* a bug stream_and_record could have: the record is added before the body
\* is streamed, and stays when the stream breaks
record_then_stream(h, doc, fs, day, url, title, env, filepath, ev) ==
    LET writes == [i \in 1..env.cut |-> "write"]
        added == add_download(h, doc, title, filepath, url, day, env.save)
        done == env.fail = "none"
        kind == CASE env.fail = "stream" -> "request_error"
                  [] env.fail = "write" -> "error"
                  [] OTHER -> "success"
        msg == CASE env.fail = "stream" -> MsgFailed(StreamErrorText)
                 [] env.fail = "write" -> MsgError(WriteErrorText)
                 [] OTHER -> MsgSuccess(filepath)
    IN  Outcome(FALSE, done, kind, msg, IF done THEN filepath ELSE <<>>, NoDate,
                added.history, added.disk_doc,
                (filepath :> NewFile(done, title, env.cut)) @@ fs,
                ev \o <<"add", "save", "open">> \o writes \o <<"close">>)

\* a bug download_pdf could have: a write of the history file that fails
\* ends the download as an error, with nothing recorded
stream_and_record_save_fatal(h, doc, fs, day, url, title, env, filepath, ev) ==
    LET writes == [i \in 1..env.cut |-> "write"]
        partial == (filepath :> NewFile(FALSE, title, env.cut)) @@ fs
        whole == (filepath :> NewFile(TRUE, title, env.chunks)) @@ fs
        added == add_download(h, doc, title, filepath, url, day, env.save)
    IN  CASE env.fail \in {"stream", "write"} ->
               Outcome(FALSE, FALSE, "error", MsgError(WriteErrorText),
                       <<>>, NoDate, h, doc, partial,
                       ev \o <<"open">> \o writes \o <<"close">>)
          [] env.save # "ok" ->
               Outcome(FALSE, FALSE, "error", MsgError(WriteErrorText),
                       <<>>, NoDate, h, added.disk_doc, whole,
                       ev \o <<"open">> \o writes \o <<"close", "add", "save">>)
          [] OTHER ->
               Outcome(FALSE, TRUE, "success", MsgSuccess(filepath),
                       filepath, NoDate, added.history, added.disk_doc, whole,
                       ev \o <<"open">> \o writes \o <<"close", "add", "save">>)

\* a version of stream_and_record that takes the file away again when the
\* body breaks off
stream_and_record_cleanup(h, doc, fs, day, url, title, env, filepath, ev) ==
    LET writes == [i \in 1..env.cut |-> "write"]
        whole == (filepath :> NewFile(TRUE, title, env.chunks)) @@ fs
        added == add_download(h, doc, title, filepath, url, day, env.save)
    IN  CASE env.fail = "stream" ->
               Outcome(FALSE, FALSE, "request_error", MsgFailed(StreamErrorText),
                       <<>>, NoDate, h, doc, fs,
                       ev \o <<"open">> \o writes \o <<"close">>)
          [] env.fail = "write" ->
               Outcome(FALSE, FALSE, "error", MsgError(WriteErrorText),
                       <<>>, NoDate, h, doc, fs,
                       ev \o <<"open">> \o writes \o <<"close">>)
          [] OTHER ->
               Outcome(FALSE, TRUE, "success", MsgSuccess(filepath),
                       filepath, NoDate, added.history, added.disk_doc, whole,
                       ev \o <<"open">> \o writes \o <<"close", "add", "save">>)

\* lines 95-109 of download_pdf: the body is streamed into filepath, then the
\* record is added
stream_and_record(h, doc, fs, day, url, title, env, filepath, ev) ==
    LET writes == [i \in 1..env.cut |-> "write"]
        partial == (filepath :> NewFile(FALSE, title, env.cut)) @@ fs
        whole == (filepath :> NewFile(TRUE, title, env.chunks)) @@ fs
        added == add_download(h, doc, title, filepath, url, day, env.save)
    IN  CASE env.fail = "stream" ->
               Outcome(FALSE, FALSE, "request_error", MsgFailed(StreamErrorText),
                       <<>>, NoDate, h, doc, partial,
                       ev \o <<"open">> \o writes \o <<"close">>)
          [] env.fail = "write" ->
               Outcome(FALSE, FALSE, "error", MsgError(WriteErrorText),
                       <<>>, NoDate, h, doc, partial,
                       ev \o <<"open">> \o writes \o <<"close">>)
          [] OTHER ->
               Outcome(FALSE, TRUE, "success", MsgSuccess(filepath),
                       filepath, NoDate, added.history, added.disk_doc, whole,
                       ev \o <<"open">> \o writes \o <<"close", "add", "save">>)

\* a bug download_pdf could have: the response is looked at after the body
\* was stored and recorded
fetch_check_late(h, doc, fs, day, url, title, env) ==
    LET filepath == choose_filepath(fs, title)
        ev == <<"lookup", "exists", "request">>
        stored == stream_and_record(h, doc, fs, day, url, title, env, filepath, ev)
    IN  CASE env.net = "timeout" ->
               Outcome(FALSE, FALSE, "timeout", MsgTimeout, <<>>, NoDate,
                       h, doc, fs, ev)
          [] env.net = "conn_error" ->
               Outcome(FALSE, FALSE, "request_error", MsgFailed(NetErrorText),
                       <<>>, NoDate, h, doc, fs, ev)
          [] env.net = "http_error" ->
               Outcome(FALSE, FALSE, "request_error", MsgFailed(HttpErrorText),
                       <<>>, NoDate, h, doc, fs, ev)
          [] ~env.open_ok ->
               Outcome(FALSE, FALSE, "error", MsgError(OpenErrorText(filepath)),
                       <<>>, NoDate, h, doc, fs, ev \o <<"open">>)
          [] ~IsPdfResponse(url, env) /\ stored.ok ->
               Outcome(FALSE, FALSE, "not_pdf", MsgNotPdf, <<>>, NoDate,
                       stored.history, stored.disk_doc, stored.files, stored.events)
          [] OTHER -> stored

\* lines 65-116 of download_pdf: the try block and its handlers
fetch(h, doc, fs, day, url, title, env) ==
    LET filepath == choose_filepath(fs, title)
        ev == <<"lookup", "exists", "request">>
    IN  CASE env.net = "timeout" ->
               Outcome(FALSE, FALSE, "timeout", MsgTimeout, <<>>, NoDate,
                       h, doc, fs, ev)
          [] env.net = "conn_error" ->
               Outcome(FALSE, FALSE, "request_error", MsgFailed(NetErrorText),
                       <<>>, NoDate, h, doc, fs, ev)
          [] env.net = "http_error" ->
               Outcome(FALSE, FALSE, "request_error", MsgFailed(HttpErrorText),
                       <<>>, NoDate, h, doc, fs, ev)
          [] ~IsPdfResponse(url, env) ->
               Outcome(FALSE, FALSE, "not_pdf", MsgNotPdf, <<>>, NoDate,
                       h, doc, fs, ev)
          [] ~env.open_ok ->
               Outcome(FALSE, FALSE, "error", MsgError(OpenErrorText(filepath)),
                       <<>>, NoDate, h, doc, fs, ev \o <<"open">>)
          [] OTHER ->
               stream_and_record(h, doc, fs, day, url, title, env, filepath, ev)

\* lines 60-63 of download_pdf: the duplicate check, outside the try block;
\* info['date_only'] raises KeyError when the record has no such field
duplicate_lookup(h, doc, fs, title) ==
    LET info == CHOOSE r \in get_download_info(h, title) : TRUE
    IN  IF info.has_date_only
        THEN Outcome(FALSE, FALSE, "duplicate", MsgDuplicate, info.file_path,
                     info.date_only, h, doc, fs, <<"lookup">>)
        ELSE Outcome(TRUE, FALSE, "KeyError", <<>>, <<>>, NoDate, h, doc, fs,
                     <<"lookup">>)

\* a bug download_pdf could have: the history is consulted before the url
\* is looked at
download_pdf_lookup_first(h, doc, fs, day, url, title, env) ==
    IF is_downloaded(h, title)
    THEN duplicate_lookup(h, doc, fs, title)
    ELSE IF ~Truthy(url)
         THEN Outcome(FALSE, FALSE, "no_url", MsgNoUrl, <<>>, NoDate, h, doc, fs,
                      <<"lookup">>)
         ELSE fetch(h, doc, fs, day, url, title, env)


download_pdf(h, doc, fs, day, url, title, env) ==
    IF ~Truthy(url)
    THEN Outcome(FALSE, FALSE, "no_url", MsgNoUrl, <<>>, NoDate, h, doc, fs, <<>>)
    ELSE IF is_downloaded(h, title)
         THEN duplicate_lookup(h, doc, fs, title)
         ELSE fetch(h, doc, fs, day, url, title, env)

\* lines 146-161 of download_multiple: the bucket an outcome is appended to
bucket_of(success, message) ==
    IF success THEN "success"
    ELSE IF Contains(DupMarker, message) THEN "skipped"
    ELSE "failed"

\* paper.get('title', f'paper_{idx}')
paper_title(paper, idx) ==
    IF paper.has_title THEN paper.title
    ELSE <<"p", "a", "p", "e", "r", "_">> \o Decimal(idx)

\* paper.get('pdf_url', '')
paper_pdf_url(paper) == IF paper.has_pdf_url THEN paper.pdf_url ELSE Url(<<>>)

\* an entry of a bucket; idx and kind are history variables (the position of
\* the paper in the input and the return statement download_pdf took)
Entry(idx, title, r) ==
    [idx |-> idx, title |-> title, message |-> r.msg, filepath |-> r.path,
     kind |-> r.kind]

Event(ev, idx, arg) == [ev |-> ev, idx |-> idx, arg |-> arg]

IdleBatch ==
    [pc |-> "idle", papers |-> <<>>, cb |-> FALSE, total |-> 0, idx |-> 0,
     success |-> <<>>, failed |-> <<>>, skipped |-> <<>>, log |-> <<>>]

\* a bug iteration could have: "if" for "elif", so that a downloaded paper
\* is listed in failed as well
iteration_if_if(b, paper, r) ==
    LET i == b.idx
        e == Entry(i, paper_title(paper, i), r)
        dup == Contains(DupMarker, r.msg)
        called == IF b.cb THEN <<Event("callback", i, b.total)>> ELSE <<>>
    IN  [b EXCEPT !.pc = IF i + 1 = b.total THEN "done" ELSE "loop",
                  !.papers = Append(@, paper),
                  !.idx = i + 1,
                  !.success = IF r.ok THEN Append(@, e) ELSE @,
                  !.skipped = IF dup THEN Append(@, e) ELSE @,
                  !.failed = IF ~dup THEN Append(@, e) ELSE @,
                  !.log = @ \o called \o <<Event("begin", i, 0), Event("end", i, 0)>>]

\* a bug iteration could have: progress is reported after the attempt
iteration_report_late(b, paper, r) ==
    LET i == b.idx
        e == Entry(i, paper_title(paper, i), r)
        where == bucket_of(r.ok, r.msg)
        called == IF b.cb THEN <<Event("callback", i, b.total)>> ELSE <<>>
    IN  [b EXCEPT !.pc = IF i + 1 = b.total THEN "done" ELSE "loop",
                  !.papers = Append(@, paper),
                  !.idx = i + 1,
                  !.success = IF where = "success" THEN Append(@, e) ELSE @,
                  !.skipped = IF where = "skipped" THEN Append(@, e) ELSE @,
                  !.failed = IF where = "failed" THEN Append(@, e) ELSE @,
                  !.log = @ \o <<Event("begin", i, 0), Event("end", i, 0)>> \o called]

\* one iteration of the for loop of download_multiple (lines 137-161) and,
\* after the last paper, the return
iteration(b, paper, r) ==
    LET i == b.idx
        title == paper_title(paper, i)
        where == bucket_of(r.ok, r.msg)
        e == Entry(i, title, r)
        called == IF b.cb THEN <<Event("callback", i, b.total)>> ELSE <<>>
        log2 == b.log \o called \o <<Event("begin", i, 0)>>
    IN  IF r.raised
        THEN [b EXCEPT !.pc = "raised", !.papers = Append(@, paper), !.log = log2]
        ELSE [b EXCEPT !.pc = IF i + 1 = b.total THEN "done" ELSE "loop",
                       !.papers = Append(@, paper),
                       !.idx = i + 1,
                       !.success = IF where = "success" THEN Append(@, e) ELSE @,
                       !.skipped = IF where = "skipped" THEN Append(@, e) ELSE @,
                       !.failed = IF where = "failed" THEN Append(@, e) ELSE @,
                       !.log = log2 \o <<Event("end", i, 0)>>]

-----------------------------------------------------------------------------
(* config.py: Config *)

DefaultMaxResults == 100

DefaultConfig ==
    [MAX_RESULTS |-> DefaultMaxResults, ENABLE_SMART_FILTER |-> TRUE,
     EXCLUDE_KEYWORDS |-> <<>>, REQUIRE_KEYWORDS |-> <<>>]

-----------------------------------------------------------------------------
(* search_engines.py: Paper, the three engines and SearchManager *)

Min(a, b) == IF a <= b THEN a ELSE b

\* s[:n]
Take(s, n) == SubSeq(s, 1, Min(n, Len(s)))

\* an optional list: None, or a list
NoneList == [none |-> TRUE, list |-> <<>>]

SomeList(l) == [none |-> FALSE, list |-> l]

\* class Paper (the authors, which no operation reads, are left out);
\* published is a day, or NoDate for None
SearchPaper(title, abstract, url, pdf_url, published, source) ==
    [title |-> title, abstract |-> abstract, url |-> url, pdf_url |-> pdf_url,
     published |-> published, source |-> source]

\* what a call of an engine's search returns; failed: the backend failed
\* during the call; raised: an exception left the call instead
EngineRun(papers, failed, raised) ==
    [papers |-> papers, failed |-> failed, raised |-> raised]

\* the two date tests of the engines' loops ("continue" when one is true)
\* a bug the date test could have: the bounds themselves are outside
InRange_exclusive(published, start_date, end_date) ==
    /\ ~(start_date # NoDate /\ published <= start_date)
    /\ ~(end_date # NoDate /\ published >= end_date)

\* "if start_date and published_date < start_date: continue" and the same
\* for end_date: the test a dated record has to pass
InRange(published, start_date, end_date) ==
    /\ ~(start_date # NoDate /\ published < start_date)
    /\ ~(end_date # NoDate /\ published > end_date)

NoFail == 0 - 1

\* what the arXiv service does to one search: feed is the sequence of results
\* client.results() has to give, fail_at the number of results it gives
\* before a request of it raises (NoFail: none does)
ArxivBackend(feed, fail_at) == [feed |-> feed, fail_at |-> fail_at]

ArxivPaper(r) ==
    SearchPaper(r.title, r.summary, r.entry_id, Url(r.pdf_url), r.published, "ArXiv")

\* ArxivSearchEngine.search: the generator gives at most max_results results;
\* an exception ends the loop and the papers appended so far are returned
arxiv_search(b, max_results, start_date, end_date) ==
    LET failed == b.fail_at # NoFail /\ b.fail_at < max_results
        given == Take(b.feed, IF failed THEN b.fail_at ELSE max_results)
        kept == SelectSeq(given, LAMBDA r : InRange(r.published, start_date, end_date))
    IN  EngineRun([i \in 1..Len(kept) |-> ArxivPaper(kept[i])], failed, FALSE)

\* what the OpenReview service does to one search: net is what requests.get
\* does, status the status code and notes the notes of the JSON body; a note
\* is well formed or makes the loop body raise
OpenReviewBackend(net, status, notes) ==
    [net |-> net, status |-> status, notes |-> notes]

HttpOk == 200

NoTitle == <<"N", "o", " ", "T", "i", "t", "l", "e">>

NoAbstract == <<"N", "o", " ", "A", "b", "s", "t", "r", "a", "c", "t">>

\* the text the scholar engine puts where a block has no abstract
AbstractUnavailable == <<"abstract-unavailable">>

OpenReviewPaper(note) ==
    SearchPaper(note.title, IF note.abstract = <<>> THEN NoAbstract ELSE note.abstract,
                <<"forum?id=">> \o note.id, Url(<<"pdf?id=">> \o note.id),
                note.cdate, "OpenReview")

\* the index of the first note of notes that makes the loop body raise
\* (Len(notes) + 1: none does)
FirstBad(notes) ==
    LET bad == { i \in 1..Len(notes) : ~notes[i].well_formed }
    IN  IF bad = {} THEN Len(notes) + 1 ELSE CHOOSE i \in bad : \A j \in bad : i <= j

\* OpenReviewSearchEngine.search: the loop over notes[:max_results] skips a
\* dated note outside the range and a note without a title
openreview_search(b, max_results, start_date, end_date) ==
    LET notes == Take(b.notes, max_results)
        done == SubSeq(notes, 1, FirstBad(notes) - 1)
        kept == SelectSeq(done, LAMBDA n :
                    /\ (n.cdate # NoDate => InRange(n.cdate, start_date, end_date))
                    /\ n.title # <<>> /\ n.title # NoTitle)
    IN  CASE b.net # "ok" -> EngineRun(<<>>, TRUE, FALSE)
          [] b.status # HttpOk -> EngineRun(<<>>, TRUE, FALSE)
          [] OTHER -> EngineRun([i \in 1..Len(kept) |-> OpenReviewPaper(kept[i])],
                                FirstBad(notes) <= Len(notes), FALSE)

\* what the browser and Google Scholar do to one search: selenium is
\* SELENIUM_AVAILABLE, driver whether the browser session is set up and the
\* page loads, block what becomes of a block page (there is none, it clears
\* within the wait, it does not) and blocks the result blocks of the page
ScholarBackend(selenium, driver, block, blocks) ==
    [selenium |-> selenium, driver |-> driver, block |-> block, blocks |-> blocks]

\* the badges of the format a heading can carry; the third, the word for
\* "book" in brackets, is written in ASCII
Badges ==
    [ html |-> <<"[", "H", "T", "M", "L", "]">>,
      pdf |-> <<"[", "P", "D", "F", "]">>,
      book |-> <<"[", "B", "O", "O", "K", "]">> ]

\* the title of a result: the text of its heading, stripped, without the
\* badges of the format, stripped again
scholar_title(text) ==
    Strip(Remove(Badges.book, Remove(Badges.pdf, Remove(Badges.html, Strip(text)))))

\* the Paper of a result block that has a heading; blk.title is the text of
\* the heading
ScholarPaper(blk) ==
    SearchPaper(scholar_title(blk.title),
                IF blk.has_abstract THEN blk.abstract ELSE AbstractUnavailable,
                blk.href, blk.pdf, NoDate, "Google Scholar")

\* GoogleScholarSearchEngine._search_with_selenium: a result block that has
\* no heading or that raises while it is parsed is skipped
_search_with_selenium(b, max_results) ==
    LET blocks == Take(b.blocks, max_results)
        kept == SelectSeq(blocks, LAMBDA blk : blk.kind = "ok")
    IN  CASE b.driver # "ok" -> EngineRun(<<>>, TRUE, FALSE)
          [] b.block = "timeout" -> EngineRun(<<>>, TRUE, FALSE)
          [] OTHER -> EngineRun([i \in 1..Len(kept) |-> ScholarPaper(kept[i])],
                                FALSE, FALSE)

\* GoogleScholarSearchEngine.search: the dates only go into the address
scholar_search(b, max_results, start_date, end_date) ==
    IF b.selenium
    THEN _search_with_selenium(b, max_results)
    ELSE EngineRun(<<>>, TRUE, FALSE)

\* max_wait of the two waits of _search_with_selenium, in seconds
MaxWait == 120

\* time.sleep(2) of the loops of the two waits
PollInterval == 2

\* the browser of a search that has not been entered
IdleSession ==
    [pc |-> "idle", driver |-> "none", quits |-> 0,
     tabs |-> {}, focus |-> 0, wait |-> "none", waited |-> 0,
     blocks |-> <<>>, idx |-> 0, papers |-> <<>>, exit |-> "none",
     trace |-> <<>>]

\* _search_with_selenium is entered: papers = [], driver = None
session_begin ==
    [IdleSession EXCEPT !.pc = "init", !.trace = <<"Init">>]

\* a bug the method could have: the return of a wait that was given up does
\* not go through the release of the browser
leave_unreleased(s, exit) ==
    IF exit = "timeout" THEN [s EXCEPT !.pc = "returned", !.exit = exit]
    ELSE [s EXCEPT !.pc = "finally", !.exit = exit]

\* an exception ends the try block, a return leaves it: both go through the
\* finally clause
leave(s, exit) == [s EXCEPT !.pc = "finally", !.exit = exit]

\* the browser is set up (by the driver manager or, when that fails, by the
\* driver on the path) and the address of the query is loaded; setup is
\* "ok", "fallback" or "error", load is "ok" or "error"
navigate(s, setup, load) ==
    LET acquired == [s EXCEPT !.driver = "open", !.tabs = {1}, !.focus = 1]
    IN  CASE setup = "error" -> leave(s, "exception")
          [] load = "error" -> leave(acquired, "exception")
          [] OTHER -> [acquired EXCEPT !.pc = "navigated",
                                       !.trace = Append(@, "Navigated")]

\* the polling wait for the block named kind starts: start_time = time.time()
start_wait(s, kind) ==
    [s EXCEPT !.pc = "wait", !.wait = kind, !.waited = 0,
              !.trace = Append(@, "Blocked")]

\* the checks of the loaded page: a page of the unusual-traffic block starts
\* the first wait, a captcha page without results the second; after the first
\* wait only the second check is left, after the second none
check_page(s, page) ==
    CASE page = "error" -> leave(s, "exception")
      [] page = "rate_limit" /\ s.wait = "none" -> start_wait(s, "rate_limit")
      [] page = "captcha" /\ s.wait # "captcha" -> start_wait(s, "captcha")
      [] OTHER -> [s EXCEPT !.pc = "read"]

\* a version of wait_open that lets the loop go round once more after the
\* ceiling
wait_open_late(s) == s.waited < MaxWait + 2 * PollInterval

\* "while time.time() - start_time < max_wait": waited is time.time() -
\* start_time, which the sleeps of the loop advance
wait_open(s) == s.waited < MaxWait

\* one round of the loop of a wait: the page is read; when the block is gone
\* the loop is left, when it is still there the loop sleeps, and a read that
\* raises goes straight to the next round; start_time is not read after the
\* loop
poll(s, probe) ==
    CASE probe = "verified" -> [s EXCEPT !.pc = "unblocked", !.waited = 0,
                                         !.trace = Append(@, "Unblocked")]
      [] probe = "blocked" -> [s EXCEPT !.waited = @ + PollInterval]
      [] OTHER -> s

\* "if not verified: return papers"
wait_expired(s) ==
    leave([s EXCEPT !.trace = Append(@, "Timeout")], "timeout")

\* the result blocks of the page are read: "if not results: return papers";
\* the loop goes over results[:min(len(results), self.max_results)]
read_results(s, blocks, max_results) ==
    IF blocks = <<>> THEN leave(s, "no_results")
    ELSE [s EXCEPT !.pc = "parsing", !.blocks = Take(blocks, max_results),
                   !.idx = 0, !.trace = Append(@, "Parsing")]

\* what a call of _fetch_full_abstract leaves: the tabs of the browser, the
\* tab that has the focus and the text it returns
Fetched(tabs, focus, text) == [tabs |-> tabs, focus |-> focus, text |-> text]

\* the arXiv page of a result: the step of _fetch_full_abstract that raises
\* ("none": no step does) and the abstract of the page
ArxivPage(fail, abstract) == [fail |-> fail, abstract |-> abstract]

\* the handle of the tab window.open('') opens
NewTab(tabs) == CHOOSE t \in 1..(Cardinality(tabs) + 1) : t \notin tabs

\* _fetch_full_abstract for an address of arxiv.org/abs: the handle is read,
\* the tab opened and switched to before the inner try; the finally clause
\* closes the tab and then switches back
_fetch_full_abstract(tabs, focus, page) ==
    LET tab == NewTab(tabs)
        opened == tabs \cup {tab}
    IN  CASE page.fail \in {"handle", "open"} -> Fetched(tabs, focus, NoneList)
          [] page.fail = "switch" -> Fetched(opened, focus, NoneList)
          [] page.fail = "close" -> Fetched(opened, tab, NoneList)
          [] page.fail = "restore" -> Fetched(tabs, tab, NoneList)
          [] page.fail \in {"get", "no_abstract"} -> Fetched(tabs, focus, NoneList)
          [] OTHER -> Fetched(tabs, focus, SomeList(Strip(page.abstract)))

\* a bug the loop could have: a block that raises ends the parse of the page
parse_result_abort(s, page) ==
    LET blk == s.blocks[s.idx + 1]
        linked == blk.has_abstract /\ blk.arxiv
        got == IF linked THEN _fetch_full_abstract(s.tabs, s.focus, page)
               ELSE Fetched(s.tabs, s.focus, NoneList)
        paper == ScholarPaper(blk)
        enhanced == IF ~got.text.none /\ got.text.list # <<>>
                       /\ Len(got.text.list) > Len(paper.abstract)
                    THEN [paper EXCEPT !.abstract = got.text.list]
                    ELSE paper
    IN  CASE blk.kind = "malformed" -> leave([s EXCEPT !.idx = Len(s.blocks)], "exception")
          [] blk.kind # "ok" -> [s EXCEPT !.idx = @ + 1]
          [] OTHER -> [s EXCEPT !.idx = @ + 1, !.papers = Append(@, enhanced),
                                !.tabs = got.tabs, !.focus = got.focus]

\* one round of the loop over the result blocks: a block without a heading
\* and a block that raises are passed over; the abstract of a result of
\* arXiv is replaced by a longer one that _fetch_full_abstract brings
parse_result(s, page) ==
    LET blk == s.blocks[s.idx + 1]
        linked == blk.has_abstract /\ blk.arxiv
        got == IF linked THEN _fetch_full_abstract(s.tabs, s.focus, page)
               ELSE Fetched(s.tabs, s.focus, NoneList)
        paper == ScholarPaper(blk)
        enhanced == IF ~got.text.none /\ got.text.list # <<>>
                       /\ Len(got.text.list) > Len(paper.abstract)
                    THEN [paper EXCEPT !.abstract = got.text.list]
                    ELSE paper
    IN  IF blk.kind # "ok" THEN [s EXCEPT !.idx = @ + 1]
        ELSE [s EXCEPT !.idx = @ + 1, !.papers = Append(@, enhanced),
                       !.tabs = got.tabs, !.focus = got.focus]

\* the finally clause and the return: "if driver: driver.quit()", whose
\* exception is dropped
release(s) ==
    IF s.driver = "open"
    THEN [s EXCEPT !.pc = "returned", !.driver = "quit", !.quits = @ + 1,
                   !.tabs = {}, !.trace = Append(@, "Released")]
    ELSE [s EXCEPT !.pc = "returned"]

\* SearchManager.engines, in the order of the dict
Engines == <<"arxiv", "openreview", "google_scholar">>

EngineNames == { Engines[i] : i \in 1..Len(Engines) }

\* self.engines[source].search(keywords, start_date, end_date)
engine_search(source, b, max_results, start_date, end_date) ==
    CASE source = "arxiv" -> arxiv_search(b, max_results, start_date, end_date)
      [] source = "openreview" -> openreview_search(b, max_results, start_date, end_date)
      [] OTHER -> scholar_search(b, max_results, start_date, end_date)

\* "for keyword in keywords: if keyword.lower() in content: ..." leaves the
\* loop at the first keyword that content holds
RECURSIVE some_keyword_in(_, _)
some_keyword_in(keywords, content) ==
    IF keywords = <<>> THEN FALSE
    ELSE IF Contains(Lower(Head(keywords)), content) THEN TRUE
    ELSE some_keyword_in(Tail(keywords), content)

\* a bug _filter_paper could have: the required keywords are looked at
\* first, and a paper that has one is kept
_filter_paper_require_first(paper, exclude_keywords, require_keywords) ==
    LET content == Lower(paper.title \o <<" ">> \o paper.abstract)
    IN  IF require_keywords # <<>>
        THEN some_keyword_in(require_keywords, content)
        ELSE ~some_keyword_in(exclude_keywords, content)

\* SearchManager._filter_paper
_filter_paper(paper, exclude_keywords, require_keywords) ==
    LET content == Lower(paper.title \o <<" ">> \o paper.abstract)
    IN  IF exclude_keywords # <<>> /\ some_keyword_in(exclude_keywords, content)
        THEN FALSE
        ELSE IF require_keywords # <<>> /\ ~some_keyword_in(require_keywords, content)
             THEN FALSE
             ELSE TRUE

\* one engine call of a search_all call: the source, what its backend did,
\* the ceiling the engine read, what search returned and what the filter kept
SearchRun(source, b, max_results, r, kept) ==
    [source |-> source, backend |-> b, max_results |-> max_results,
     papers |-> r.papers, failed |-> r.failed, kept |-> kept]

IdleSearch ==
    [pc |-> "idle", sources |-> <<>>, idx |-> 0,
     start_date |-> NoDate, end_date |-> NoDate,
     exclude_keywords |-> <<>>, require_keywords |-> <<>>,
     smart_filter |-> FALSE, enable_filter |-> FALSE,
     runs |-> <<>>, all_papers |-> <<>>]

\* lines 657-676 of search_all: the defaults of the arguments
search_begin(cfg, sources, start_date, end_date, exclude_keywords, require_keywords) ==
    LET srcs == IF sources.none THEN Engines ELSE sources.list
        ex == IF exclude_keywords.none THEN cfg.EXCLUDE_KEYWORDS
              ELSE exclude_keywords.list
        rq == IF require_keywords.none THEN cfg.REQUIRE_KEYWORDS
              ELSE require_keywords.list
    IN  [IdleSearch EXCEPT !.pc = IF srcs = <<>> THEN "done" ELSE "loop",
                           !.sources = srcs,
                           !.start_date = start_date, !.end_date = end_date,
                           !.exclude_keywords = ex, !.require_keywords = rq,
                           !.smart_filter = cfg.ENABLE_SMART_FILTER,
                           !.enable_filter = cfg.ENABLE_SMART_FILTER
                                               /\ (ex # <<>> \/ rq # <<>>)]

\* a bug search_step could have: the papers are merged as the engine gave them
search_step_unfiltered(s, cfg, b) ==
    LET source == s.sources[s.idx + 1]
        r == engine_search(source, b, cfg.MAX_RESULTS, s.start_date, s.end_date)
        pc2 == IF s.idx + 1 = Len(s.sources) THEN "done" ELSE "loop"
    IN  CASE source \notin EngineNames -> [s EXCEPT !.idx = @ + 1, !.pc = pc2]
          [] r.raised -> [s EXCEPT !.pc = "raised"]
          [] OTHER -> [s EXCEPT !.idx = @ + 1, !.pc = pc2,
                                !.runs = Append(@, SearchRun(source, b, cfg.MAX_RESULTS,
                                                             r, r.papers)),
                                !.all_papers = @ \o r.papers]

\* a bug search_step could have: a paper whose title was found by an earlier
\* source is left out
search_step_dedup(s, cfg, b) ==
    LET source == s.sources[s.idx + 1]
        r == engine_search(source, b, cfg.MAX_RESULTS, s.start_date, s.end_date)
        kept == IF s.enable_filter
                THEN SelectSeq(r.papers, LAMBDA paper :
                         _filter_paper(paper, s.exclude_keywords, s.require_keywords))
                ELSE r.papers
        fresh == SelectSeq(kept, LAMBDA paper :
                     \A i \in 1..Len(s.all_papers) : s.all_papers[i].title # paper.title)
        pc2 == IF s.idx + 1 = Len(s.sources) THEN "done" ELSE "loop"
    IN  CASE source \notin EngineNames -> [s EXCEPT !.idx = @ + 1, !.pc = pc2]
          [] r.raised -> [s EXCEPT !.pc = "raised"]
          [] OTHER -> [s EXCEPT !.idx = @ + 1, !.pc = pc2,
                                !.runs = Append(@, SearchRun(source, b, cfg.MAX_RESULTS,
                                                             r, kept)),
                                !.all_papers = @ \o fresh]

\* a bug search_step could have: a source that failed ends the query
search_step_give_up(s, cfg, b) ==
    LET source == s.sources[s.idx + 1]
        r == engine_search(source, b, cfg.MAX_RESULTS, s.start_date, s.end_date)
        kept == IF s.enable_filter
                THEN SelectSeq(r.papers, LAMBDA paper :
                         _filter_paper(paper, s.exclude_keywords, s.require_keywords))
                ELSE r.papers
        pc2 == IF s.idx + 1 = Len(s.sources) THEN "done" ELSE "loop"
    IN  CASE source \notin EngineNames -> [s EXCEPT !.idx = @ + 1, !.pc = pc2]
          [] r.raised -> [s EXCEPT !.pc = "raised"]
          [] OTHER -> [s EXCEPT !.idx = @ + 1,
                                !.pc = IF r.failed THEN "done" ELSE pc2,
                                !.runs = Append(@, SearchRun(source, b, cfg.MAX_RESULTS,
                                                             r, kept)),
                                !.all_papers = @ \o kept]

\* a bug search_step could have: the engine keeps the ceiling it read when it
\* was constructed
search_step_cached(s, cfg, b) ==
    LET source == s.sources[s.idx + 1]
        r == engine_search(source, b, DefaultMaxResults, s.start_date, s.end_date)
        kept == IF s.enable_filter
                THEN SelectSeq(r.papers, LAMBDA paper :
                         _filter_paper(paper, s.exclude_keywords, s.require_keywords))
                ELSE r.papers
        pc2 == IF s.idx + 1 = Len(s.sources) THEN "done" ELSE "loop"
    IN  CASE source \notin EngineNames -> [s EXCEPT !.idx = @ + 1, !.pc = pc2]
          [] r.raised -> [s EXCEPT !.pc = "raised"]
          [] OTHER -> [s EXCEPT !.idx = @ + 1, !.pc = pc2,
                                !.runs = Append(@, SearchRun(source, b, DefaultMaxResults,
                                                             r, kept)),
                                !.all_papers = @ \o kept]

\* one iteration of the for loop of search_all (lines 678-692) and, after
\* the last source, the return
search_step(s, cfg, b) ==
    LET source == s.sources[s.idx + 1]
        r == engine_search(source, b, cfg.MAX_RESULTS, s.start_date, s.end_date)
        kept == IF s.enable_filter
                THEN SelectSeq(r.papers, LAMBDA paper :
                         _filter_paper(paper, s.exclude_keywords, s.require_keywords))
                ELSE r.papers
        pc2 == IF s.idx + 1 = Len(s.sources) THEN "done" ELSE "loop"
    IN  CASE source \notin EngineNames -> [s EXCEPT !.idx = @ + 1, !.pc = pc2]
          [] r.raised -> [s EXCEPT !.pc = "raised"]
          [] OTHER -> [s EXCEPT !.idx = @ + 1, !.pc = pc2,
                                !.runs = Append(@, SearchRun(source, b, cfg.MAX_RESULTS,
                                                             r, kept)),
                                !.all_papers = @ \o kept]

-----------------------------------------------------------------------------
(* download_manager.py: the body of a response and the progress callback *)

DigitChars == {"0", "1", "2", "3", "4", "5", "6", "7", "8", "9"}

\* the value of a text of decimal digits
RECURSIVE digits_value(_)
digits_value(text) ==
    IF text = <<>> THEN 0
    ELSE digits_value(SubSeq(text, 1, Len(text) - 1)) * 10
           + (CHOOSE n \in 0..9 : Decimal(n) = <<text[Len(text)]>>)

\* int(text): blanks around the number and a sign before it are accepted,
\* anything else raises ValueError
int_of(text) ==
    LET t == Strip(text)
        signed == t # <<>> /\ Head(t) \in {"-", "+"}
        digits == IF signed THEN Tail(t) ELSE t
        valid == digits # <<>> /\ \A k \in 1..Len(digits) : digits[k] \in DigitChars
    IN  [raised |-> ~valid,
         value |-> IF ~valid THEN 0
                   ELSE IF signed /\ Head(t) = "-" THEN 0 - digits_value(digits)
                   ELSE digits_value(digits)]

\* total_size = int(response.headers.get('content-length', 0))
total_size_of(header) ==
    IF header.none THEN [raised |-> FALSE, value |-> 0] ELSE int_of(header.list)

\* (downloaded_size / total_size) * 100, kept as a fraction
Percent(downloaded_size, total_size) ==
    [num |-> downloaded_size * 100, den |-> total_size]

\* the loop over response.iter_content: the percentages the callback is
\* called with; chunks are the lengths of the chunks, an empty chunk is
\* passed over
RECURSIVE progress_calls(_, _, _)
progress_calls(total_size, chunks, downloaded_size) ==
    IF chunks = <<>> THEN <<>>
    ELSE IF Head(chunks) = 0
         THEN progress_calls(total_size, Tail(chunks), downloaded_size)
         ELSE (IF total_size > 0
               THEN <<Percent(downloaded_size + Head(chunks), total_size)>>
               ELSE <<>>)
              \o progress_calls(total_size, Tail(chunks),
                                downloaded_size + Head(chunks))

RECURSIVE written_size(_)
written_size(chunks) ==
    IF chunks = <<>> THEN 0 ELSE Head(chunks) + written_size(Tail(chunks))

\* lines 92-104 of download_pdf for a response whose body arrives whole:
\* whether the with block was left without an exception, the calls of the
\* callback and the bytes written to the file
stream_body(header, chunks, has_callback) ==
    LET total == total_size_of(header)
    IN  IF total.raised
        THEN [completed |-> FALSE, calls |-> <<>>, written |-> 0]
        ELSE [completed |-> TRUE,
              calls |-> IF has_callback
                        THEN progress_calls(total.value, chunks, 0)
                        ELSE <<>>,
              written |-> written_size(chunks)]

-----------------------------------------------------------------------------
(* The inputs the model draws from *)

Titles == { <<"A">>, <<" ", "a">>, <<"A", "?">> }

Urls == { NoneUrl, Url(<<>>), Url(<<"u">>), Url(<<"u", ".", "P", "D", "F">>) }

Paper(has_title, title, has_pdf_url, pdf_url) ==
    [has_title |-> has_title, title |-> title,
     has_pdf_url |-> has_pdf_url, pdf_url |-> pdf_url]

Papers ==
    { Paper(TRUE, <<"A">>, TRUE, Url(<<"u", ".", "P", "D", "F">>)),
      Paper(TRUE, <<" ", "a">>, TRUE, Url(<<"u">>)),
      Paper(TRUE, <<"@">>, TRUE, Url(<<"u", ".", "P", "D", "F">>)),
      Paper(FALSE, <<>>, TRUE, NoneUrl),
      Paper(TRUE, <<"A", "?">>, FALSE, NoneUrl) }

-----------------------------------------------------------------------------
(* The state machine of the download side *)

\* save is what became of the write of the history file the call made
\* ("none": it made none)
Call(op, url, title, save, r) ==
    [op |-> op, url |-> url, title |-> title, save |-> save,
     raised |-> r.raised, ok |-> r.ok,
     kind |-> r.kind, msg |-> r.msg, path |-> r.path, date |-> r.date,
     events |-> r.events]

NoResult(h, doc, fs) ==
    Outcome(FALSE, FALSE, "none", <<>>, <<>>, NoDate, h, doc, fs, <<>>)

NoCall ==
    Call("none", NoneUrl, <<>>, "none", NoResult(EmptyHistory, MissingDoc, <<>>))

\* the second process: whether it runs, the day it loaded the file, the
\* history it loaded, the history it holds and its last call of download_pdf
Peer(running, loaded_day, base, h, call) ==
    [running |-> running, loaded_day |-> loaded_day, base |-> base,
     history |-> h, last |-> call]

NoPeer == Peer(FALSE, NoDate, EmptyHistory, EmptyHistory, NoCall)

\* a fresh installation: no history file, an empty download directory
Init ==
    /\ disk_doc = MissingDoc
    /\ history = _load_history(MissingDoc)
    /\ files = <<>>
    /\ now = 0
    /\ last = NoCall
    /\ batch = IdleBatch
    /\ search_doc = MissingDoc
    /\ searches = _load_search_history(MissingDoc)
    /\ slast = SCall("none", "none")
    /\ config = DefaultConfig
    /\ search = IdleSearch
    /\ pure = NoPure
    /\ scholar = IdleSession
    /\ peer = NoPeer

Busy == batch.pc = "loop"

HasRoom == Cardinality(DOMAIN files) < MaxFiles

\* a direct call of DownloadManager.download_pdf
DownloadPdfOf(urls, titles, envs, room) ==
    /\ ~Busy /\ Cardinality(DOMAIN files) < room
    /\ \E url \in urls, title \in titles :
       \E env \in EnvsFor(envs, history, url, title) :
       \E r \in {download_pdf(history, disk_doc, files, now, url, title, env)} :
             /\ history' = r.history
             /\ disk_doc' = r.disk_doc
             /\ files' = r.files
             /\ last' = Call("download_pdf", url, title,
                             IF r.kind = "success" THEN env.save ELSE "none", r)
    /\ batch' = IdleBatch
    /\ UNCHANGED <<now, store_vars, search_vars, aux_vars>>

DownloadPdf == DownloadPdfOf(Urls, Titles, Envs, MaxFiles)

\* DownloadManager.download_multiple is entered with a list of total papers
\* (batch.papers holds the papers the loop has read so far)
StartBatch ==
    /\ ~Busy
    /\ \E total \in 0..MaxBatch, cb \in BOOLEAN :
         batch' = [IdleBatch EXCEPT !.pc = IF total = 0 THEN "done" ELSE "loop",
                                    !.cb = cb, !.total = total]
    /\ last' = NoCall
    /\ UNCHANGED <<history, disk_doc, files, now, store_vars, search_vars, aux_vars>>

\* one paper of the batch is processed
BatchStep ==
    /\ Busy /\ HasRoom
    /\ \E paper \in Papers :
       \E env \in EnvsFor(BatchEnvs, history, paper_pdf_url(paper),
                           paper_title(paper, batch.idx)) :
       \E r \in {download_pdf(history, disk_doc, files, now,
                                paper_pdf_url(paper),
                                paper_title(paper, batch.idx), env)} :
             /\ history' = r.history
             /\ disk_doc' = r.disk_doc
             /\ files' = r.files
             /\ batch' = iteration(batch, paper, r)
    /\ UNCHANGED <<now, last, store_vars, search_vars, aux_vars>>

\* DownloadHistory.remove_download
RemoveDownload ==
    /\ ~Busy
    /\ \E title \in Titles, save \in SaveResults :
       \E r \in {remove_download(history, disk_doc, title, save)} :
             /\ history' = r.history
             /\ disk_doc' = r.disk_doc
             /\ last' = Call("remove_download", NoneUrl, title,
                             IF is_downloaded(history, title) THEN save ELSE "none",
                             NoResult(r.history, r.disk_doc, files))
    /\ batch' = IdleBatch
    /\ UNCHANGED <<files, now, store_vars, search_vars, aux_vars>>

\* DownloadHistory.clear_history
ClearHistory ==
    /\ ~Busy
    /\ \E save \in SaveResults :
       \E r \in {clear_history(history, disk_doc, save)} :
             /\ history' = r.history
             /\ disk_doc' = r.disk_doc
             /\ last' = Call("clear_history", NoneUrl, <<>>, save,
                             NoResult(r.history, r.disk_doc, files))
    /\ batch' = IdleBatch
    /\ UNCHANGED <<files, now, store_vars, search_vars, aux_vars>>

\* the process ends and a new one constructs its two history stores from
\* their files
Restart ==
    /\ ~Busy
    /\ history' = _load_history(disk_doc)
    /\ last' = Call("restart", NoneUrl, <<>>, "none",
                     NoResult(history, disk_doc, files))
    /\ batch' = IdleBatch
    /\ searches' = _load_search_history(search_doc)
    /\ slast' = SCall("restart", "none")
    /\ UNCHANGED <<disk_doc, files, now, search_doc, search_vars, aux_vars>>

\* midnight passes
Tick ==
    /\ now < MaxDay
    /\ now' = now + 1
    /\ UNCHANGED <<download_vars, store_vars, search_vars, aux_vars>>

\* a second process imports download_history: its DownloadHistory is
\* constructed from the file as it is
PeerStart ==
    /\ ~Busy
    /\ peer' = Peer(TRUE, now, _load_history(disk_doc), _load_history(disk_doc), NoCall)
    /\ UNCHANGED <<download_vars, now, store_vars, search_vars, pure, scholar>>

\* a call of download_pdf in the second process: its own history in memory,
\* the same history file and the same download directory
PeerDownloadOf(urls, titles, envs, room) ==
    /\ ~Busy /\ peer.running /\ Cardinality(DOMAIN files) < room
    /\ \E url \in urls, title \in titles :
       \E env \in EnvsFor(envs, peer.history, url, title) :
       \E r \in {download_pdf(peer.history, disk_doc, files, now, url, title, env)} :
             /\ peer' = [peer EXCEPT !.history = r.history,
                                     !.last = Call("download_pdf", url, title,
                                                   IF r.kind = "success" THEN env.save
                                                   ELSE "none", r)]
             /\ disk_doc' = r.disk_doc
             /\ files' = r.files
    /\ UNCHANGED <<history, last, batch, now, store_vars, search_vars, pure, scholar>>

\* single calls of the download manager and of the history store
Next ==
    \/ DownloadPdf
    \/ RemoveDownload
    \/ ClearHistory
    \/ Tick

Spec == Init /\ [][Next]_vars

\* two processes on one history file and one download directory; every
\* write of the file is whole (the writes do not overlap)
MaxPeerFiles == 3

PeerTitles == { <<"A">>, <<"A", "?">> }

PeerUrls == { Url(<<"u", ".", "P", "D", "F">>) }

PeerEnvs ==
    { Env("ok", TRUE, TRUE, 1, "none", 1, "ok"),
      Env("timeout", TRUE, TRUE, 0, "none", 0, "ok") }

NextPeers ==
    \/ DownloadPdfOf(PeerUrls, PeerTitles, PeerEnvs, MaxPeerFiles)
    \/ PeerStart
    \/ PeerDownloadOf(PeerUrls, PeerTitles, PeerEnvs, MaxPeerFiles)
    \/ Restart
    \/ Tick

SpecPeers == Init /\ [][NextPeers]_vars

\* batches, one after the other, with records removed in between
NextBatch ==
    \/ StartBatch
    \/ BatchStep
    \/ RemoveDownload
    \/ ClearHistory

SpecBatch == Init /\ [][NextBatch]_vars

-----------------------------------------------------------------------------
(* The state machine of the two history stores *)

MaxSearchCount == 2     \* times one query is searched

Queries ==
    { [keywords |-> <<"k">>, exclude_keywords |-> <<>>],
      [keywords |-> <<"k">>, exclude_keywords |-> <<"x">>] }

SearchOutcomes ==
    { [sources |-> [none |-> TRUE, list |-> <<>>], results_count |-> 0],
      [sources |-> [none |-> FALSE, list |-> <<"arxiv">>], results_count |-> 1] }

\* the file path and link add_download is called with
StorePath == <<"f", ".", "p", "d", "f">>

StoreUrl == Url(<<"u">>)

\* a direct call of DownloadHistory.add_download
AddDownload ==
    /\ \E title \in Titles, save \in SaveResults :
       \E r \in {add_download(history, disk_doc, title, StorePath, StoreUrl,
                              now, save)} :
             /\ history' = r.history
             /\ disk_doc' = r.disk_doc
             /\ last' = Call("add_download", StoreUrl, title, save,
                             NoResult(r.history, r.disk_doc, files))
    /\ UNCHANGED <<files, now, batch, store_vars, search_vars, aux_vars>>

\* SearchHistory.add_search, called with a query of queries and an outcome
\* of outcomes, the write of the file ending as one of saves
AddSearchOf(queries, outcomes, saves) ==
    /\ \E q \in queries, o \in outcomes, save \in saves :
         /\ \A i \in 1..Len(searches) :
               SameQuery(searches[i], q.keywords, q.exclude_keywords)
                   => searches[i].search_count < MaxSearchCount
         /\ \E r \in {add_search(searches, search_doc, q.keywords,
                                 q.exclude_keywords, o.sources,
                                 o.results_count, now, save)} :
               /\ searches' = r.searches
               /\ search_doc' = r.search_doc
               /\ slast' = AddCall(q, o, save)
    /\ UNCHANGED <<download_vars, now, search_vars, aux_vars>>

AddSearch == AddSearchOf(Queries, SearchOutcomes, SaveResults)

\* SearchHistory.remove_search, called with an index of indices
RemoveSearchAt(indices, saves) ==
    /\ \E index \in indices, save \in saves :
       \E r \in {remove_search(searches, search_doc, index, save)} :
             /\ searches' = r.searches
             /\ search_doc' = r.search_doc
             /\ slast' = SCall("remove_search",
                               IF 0 <= index /\ index < Len(searches)
                               THEN save ELSE "none")
    /\ UNCHANGED <<download_vars, now, search_vars, aux_vars>>

RemoveSearch == RemoveSearchAt((0 - 1)..Len(searches), SaveResults)

\* SearchHistory.clear_history
ClearSearchesOf(saves) ==
    /\ \E save \in saves :
       \E r \in {clear_search_history(searches, search_doc, save)} :
             /\ searches' = r.searches
             /\ search_doc' = r.search_doc
             /\ slast' = SCall("clear_history", save)
    /\ UNCHANGED <<download_vars, now, search_vars, aux_vars>>

ClearSearches == ClearSearchesOf(SaveResults)

\* The two stores share no state.  A run of this state machine works on one
\* store while the other is as a fresh installation has it, which keeps the
\* state space the sum of the two stores' and not their product.
DownloadStoreUntouched ==
    history = EmptyHistory /\ disk_doc = MissingDoc /\ last.op \in {"none", "restart"}

SearchStoreUntouched ==
    searches = <<>> /\ search_doc = MissingDoc /\ slast.op \in {"none", "restart"}

NextStores ==
    \/ SearchStoreUntouched /\ AddDownload
    \/ SearchStoreUntouched /\ RemoveDownload
    \/ SearchStoreUntouched /\ ClearHistory
    \/ DownloadStoreUntouched /\ AddSearch
    \/ DownloadStoreUntouched /\ RemoveSearch
    \/ DownloadStoreUntouched /\ ClearSearches
    \/ Restart

SpecStores == Init /\ [][NextStores]_vars

-----------------------------------------------------------------------------
(* The state machine of a search history that starts from a long file *)

\* the i-th record of the file, as add_search wrote it on day 0
StoredSearch(i) ==
    [keywords |-> <<"q">> \o Decimal(i), exclude_keywords |-> <<>>,
     sources |-> <<>>, results_count |-> 0,
     first_search_time |-> 0, last_search_time |-> 0, search_count |-> 1]

StoredSearches(n) == [i \in 1..n |-> StoredSearch(i)]

CapQueries == Queries \cup {[keywords |-> <<"q", "1">>, exclude_keywords |-> <<>>]}

InitCap ==
    /\ disk_doc = MissingDoc
    /\ history = _load_history(MissingDoc)
    /\ files = <<>>
    /\ now = 0
    /\ last = NoCall
    /\ batch = IdleBatch
    /\ search_doc \in { JsonDoc(StoredSearches(n)) : n \in {HistoryCap - 1, HistoryCap} }
    /\ searches = _load_search_history(search_doc)
    /\ slast = SCall("none", "none")
    /\ config = DefaultConfig
    /\ search = IdleSearch
    /\ pure = NoPure
    /\ scholar = IdleSession
    /\ peer = NoPeer

\* the list is about as long as it may get
NearCap == Len(searches) >= HistoryCap - 1

NextCap ==
    \/ AddSearchOf(CapQueries, {CHOOSE o \in SearchOutcomes : o.results_count = 1}, {"ok"})
    \/ NearCap /\ RemoveSearchAt({0 - 1, 0, Len(searches) - 1, Len(searches)}, {"ok"})
    \/ ClearSearchesOf({"ok"})
    \/ Tick

SpecCap == InitCap /\ [][NextCap]_vars

-----------------------------------------------------------------------------
(* The state machine of a search history that only grows *)

RecentQueries == Queries \cup {[keywords |-> <<"j">>, exclude_keywords |-> <<>>]}

NextRecent ==
    \/ AddSearchOf(RecentQueries, SearchOutcomes, {"ok"})
    \/ Tick

SpecRecent == Init /\ [][NextRecent]_vars

-----------------------------------------------------------------------------
(* The state machine of a search history that starts empty *)

NextMerge ==
    \/ AddSearchOf(RecentQueries, SearchOutcomes, {"ok"})
    \/ RemoveSearchAt((0 - 1)..Len(searches), {"ok"})
    \/ ClearSearchesOf({"ok"})
    \/ Tick

SpecMerge == Init /\ [][NextMerge]_vars

-----------------------------------------------------------------------------
(* The state machine of a process that starts from a history file it finds *)

\* the file of the download directory the loaded records point at
LoadedPath == <<"a">> \o PdfExt

\* a record as add_download writes it
WrittenRecord == DownloadRecord(<<"A">>, LoadedPath, Url(<<"u">>), 0)

\* a record of a history file not written by add_download as it is now: the
\* title and the path are there, the date_only field is not
LegacyRecord == [WrittenRecord EXCEPT !.has_date_only = FALSE, !.date_only = NoDate]

\* the history files _load_history may find
LoadableDocs ==
    { MissingDoc, CorruptDoc,
      JsonDoc(<<"a">> :> WrittenRecord),
      JsonDoc(<<"a">> :> LegacyRecord) }

\* DownloadHistory.__init__ with some history file on the disk
InitLoaded ==
    /\ disk_doc \in LoadableDocs
    /\ history = _load_history(disk_doc)
    /\ files = IF disk_doc.kind = "json"
               THEN LoadedPath :> NewFile(TRUE, <<"A">>, 1)
               ELSE <<>>
    /\ now = 0
    /\ last = NoCall
    /\ batch = IdleBatch
    /\ search_doc = MissingDoc
    /\ searches = _load_search_history(MissingDoc)
    /\ slast = SCall("none", "none")
    /\ config = DefaultConfig
    /\ search = IdleSearch
    /\ pure = NoPure
    /\ scholar = IdleSession
    /\ peer = NoPeer

\* the process has made no call since it loaded its history
JustLoaded == batch.pc = "idle" /\ last.op \in {"none", "restart"}

\* a process whose first call is a single download or a batch, with batches
\* after it, until it is started anew
NextLoaded ==
    \/ JustLoaded /\ DownloadPdf
    \/ StartBatch
    \/ BatchStep
    \/ Restart

SpecLoaded == InitLoaded /\ [][NextLoaded]_vars

-----------------------------------------------------------------------------
(* The state machine of the searches *)

ArxivResult(title, summary, entry_id, published) ==
    [title |-> title, summary |-> summary, entry_id |-> entry_id,
     pdf_url |-> entry_id \o PdfExt, published |-> published]

\* the feed of a search, the newest result first
ArxivResults ==
    << ArxivResult(<<"b">>, <<"X">>, <<"2">>, 1),
       ArxivResult(<<"K">>, <<"s">>, <<"1">>, 0) >>

ArxivBackends ==
    { ArxivBackend(<<>>, NoFail),
      ArxivBackend(ArxivResults, NoFail),
      ArxivBackend(ArxivResults, 0),
      ArxivBackend(ArxivResults, 1) }

Note(well_formed, id, title, abstract, cdate) ==
    [well_formed |-> well_formed, id |-> id, title |-> title,
     abstract |-> abstract, cdate |-> cdate]

Notes ==
    [ first |-> Note(TRUE, <<"n1">>, <<"k">>, <<>>, 1),
      second |-> Note(TRUE, <<"n2">>, <<"x">>, <<"y">>, NoDate),
      untitled |-> Note(TRUE, <<"n3">>, NoTitle, <<"y">>, 0),
      broken |-> Note(FALSE, <<"n4">>, <<>>, <<>>, NoDate) ]

OpenReviewBackends ==
    { OpenReviewBackend("timeout", HttpOk, <<>>),
      OpenReviewBackend("ok", 500, <<>>),
      OpenReviewBackend("ok", HttpOk, <<Notes.first, Notes.second>>),
      OpenReviewBackend("ok", HttpOk, <<Notes.first, Notes.broken, Notes.second>>),
      OpenReviewBackend("ok", HttpOk, <<Notes.untitled, Notes.second>>) }

Block(kind, title, has_abstract, abstract) ==
    [kind |-> kind, title |-> title, has_abstract |-> has_abstract,
     abstract |-> abstract, href |-> <<"h">> \o title, pdf |-> NoneUrl,
     arxiv |-> FALSE]

Blocks ==
    [ first |-> Block("ok", <<"K", " ">>, TRUE, <<"s">>),
      second |-> Block("ok", <<"x">>, FALSE, <<>>),
      no_heading |-> Block("no_h3", <<>>, FALSE, <<>>),
      broken |-> Block("malformed", <<"z">>, FALSE, <<>>),
      badge |-> Block("ok", <<" ">> \o Badges.pdf, TRUE, <<"s">>),
      badged |-> Block("ok", Badges.html \o <<" ", "k">>, TRUE, <<"s">>) ]

ScholarBackends ==
    { ScholarBackend(FALSE, "ok", "none", <<>>),
      ScholarBackend(TRUE, "error", "none", <<>>),
      ScholarBackend(TRUE, "ok", "timeout", <<Blocks.first>>),
      ScholarBackend(TRUE, "ok", "cleared", <<Blocks.first, Blocks.broken, Blocks.second>>),
      ScholarBackend(TRUE, "ok", "none", <<Blocks.no_heading, Blocks.first>>),
      ScholarBackend(TRUE, "ok", "none", <<Blocks.badged, Blocks.badge>>) }

NoBackend == [none |-> TRUE]

BackendsOf(source) ==
    CASE source = "arxiv" -> ArxivBackends
      [] source = "openreview" -> OpenReviewBackends
      [] source = "google_scholar" -> ScholarBackends
      [] OTHER -> {NoBackend}

SearchRequest(sources, start_date, end_date, exclude_keywords, require_keywords) ==
    [sources |-> sources, start_date |-> start_date, end_date |-> end_date,
     exclude_keywords |-> exclude_keywords, require_keywords |-> require_keywords]

SearchRequests ==
    { SearchRequest(NoneList, NoDate, NoDate, NoneList, NoneList),
      SearchRequest(SomeList(<<"openreview", "arxiv">>), 1, NoDate,
                    SomeList(<<<<"X">>>>), NoneList),
      SearchRequest(SomeList(<<"pubmed", "arxiv", "google_scholar">>), NoDate, 0,
                    NoneList, SomeList(<<<<"k">>>>)),
      SearchRequest(SomeList(<<"arxiv", "arxiv">>), NoDate, NoDate, NoneList, NoneList),
      SearchRequest(SomeList(<<>>), NoDate, NoDate, NoneList, NoneList) }

Configs ==
    { DefaultConfig,
      [MAX_RESULTS |-> 1, ENABLE_SMART_FILTER |-> TRUE,
       EXCLUDE_KEYWORDS |-> <<<<"x">>>>, REQUIRE_KEYWORDS |-> <<>>],
      [MAX_RESULTS |-> 2, ENABLE_SMART_FILTER |-> FALSE,
       EXCLUDE_KEYWORDS |-> <<<<"x">>>>, REQUIRE_KEYWORDS |-> <<>>] }

Searching == search.pc = "loop"

\* the settings page of app.py sets the attributes of Config
SetConfig ==
    /\ ~Searching
    /\ config' \in Configs \ {config}
    /\ UNCHANGED <<download_vars, now, store_vars, search, aux_vars>>

\* SearchManager.search_all is entered
StartSearch ==
    /\ ~Searching
    /\ \E q \in SearchRequests :
         search' = search_begin(config, q.sources, q.start_date, q.end_date,
                                q.exclude_keywords, q.require_keywords)
    /\ UNCHANGED <<download_vars, now, store_vars, config, aux_vars>>

\* one source of the query is searched
SearchStep ==
    /\ Searching
    /\ \E b \in BackendsOf(search.sources[search.idx + 1]) :
         search' = search_step(search, config, b)
    /\ UNCHANGED <<download_vars, now, store_vars, config, aux_vars>>

NextSearch ==
    \/ SetConfig
    \/ StartSearch
    \/ SearchStep

SpecSearch == Init /\ [][NextSearch]_vars

-----------------------------------------------------------------------------
(* The state machine of the browser of one Google Scholar search *)

LinkedBlock(title, abstract) ==
    [Block("ok", title, TRUE, abstract) EXCEPT !.arxiv = TRUE]

ScholarPages ==
    { <<>>,
      <<Blocks.first, Blocks.broken, Blocks.second>>,
      <<Blocks.no_heading, LinkedBlock(<<"a">>, <<"s">>)>>,
      <<LinkedBlock(<<"a">>, <<"s">>), LinkedBlock(<<"c">>, <<"t">>)>> }

ArxivPages ==
    { ArxivPage(f, <<"l", "o", "n", "g">>) :
        f \in {"none", "handle", "open", "switch", "get", "no_abstract",
               "close", "restore"} }
      \cup {ArxivPage("none", <<"s">>)}

InSession == scholar.pc \notin {"idle", "returned"}

\* GoogleScholarSearchEngine.search calls _search_with_selenium
StartSession ==
    /\ ~InSession
    /\ scholar' = session_begin
    /\ UNCHANGED <<download_vars, now, store_vars, search_vars, pure, peer>>

Navigate ==
    /\ scholar.pc = "init"
    /\ \E setup \in {"ok", "fallback", "error"}, load \in {"ok", "error"} :
         scholar' = navigate(scholar, setup, load)
    /\ UNCHANGED <<download_vars, now, store_vars, search_vars, pure, peer>>

CheckPage ==
    /\ scholar.pc \in {"navigated", "unblocked"}
    /\ \E page \in {"results", "rate_limit", "captcha", "error"} :
         scholar' = check_page(scholar, page)
    /\ UNCHANGED <<download_vars, now, store_vars, search_vars, pure, peer>>

Poll ==
    /\ scholar.pc = "wait"
    /\ wait_open(scholar)
    /\ \E probe \in {"blocked", "verified", "raise"} :
         scholar' = poll(scholar, probe)
    /\ UNCHANGED <<download_vars, now, store_vars, search_vars, pure, peer>>

WaitExpired ==
    /\ scholar.pc = "wait"
    /\ ~wait_open(scholar)
    /\ scholar' = wait_expired(scholar)
    /\ UNCHANGED <<download_vars, now, store_vars, search_vars, pure, peer>>

ReadResults ==
    /\ scholar.pc = "read"
    /\ \/ \E blocks \in ScholarPages :
            scholar' = read_results(scholar, blocks, config.MAX_RESULTS)
       \/ scholar' = leave(scholar, "exception")
    /\ UNCHANGED <<download_vars, now, store_vars, search_vars, pure, peer>>

ParseResult ==
    /\ scholar.pc = "parsing"
    /\ scholar.idx < Len(scholar.blocks)
    /\ \E page \in ArxivPages : scholar' = parse_result(scholar, page)
    /\ UNCHANGED <<download_vars, now, store_vars, search_vars, pure, peer>>

\* the loop over the result blocks is through
ParseDone ==
    /\ scholar.pc = "parsing"
    /\ scholar.idx = Len(scholar.blocks)
    /\ scholar' = leave(scholar, "done")
    /\ UNCHANGED <<download_vars, now, store_vars, search_vars, pure, peer>>

Release ==
    /\ scholar.pc = "finally"
    /\ scholar' = release(scholar)
    /\ UNCHANGED <<download_vars, now, store_vars, search_vars, pure, peer>>

NextScholar ==
    \/ ~InSession /\ SetConfig
    \/ StartSession
    \/ Navigate
    \/ CheckPage
    \/ Poll
    \/ WaitExpired
    \/ ReadResults
    \/ ParseResult
    \/ ParseDone
    \/ Release

SpecScholar == Init /\ [][NextScholar]_vars

-----------------------------------------------------------------------------
(* Calls of the functions without effects *)

FilterTexts == { <<>>, <<"K">>, <<"b", "X">>, <<"k", " ", "x">> }

FilterPapers ==
    { SearchPaper(t, a, <<"u">>, NoneUrl, NoDate, "ArXiv") :
        t \in FilterTexts, a \in FilterTexts }

FilterKeywords ==
    { <<>>, << <<"x">> >>, << <<"K">> >>, << <<"z">>, <<"X">> >>,
      << <<"k", "x">> >>, << <<>> >> }

\* a call of SearchManager._filter_paper
FilterPaper ==
    /\ \E paper \in FilterPapers, ex \in FilterKeywords, rq \in FilterKeywords :
         pure' = PureCall("_filter_paper", <<paper, ex, rq>>,
                          _filter_paper(paper, ex, rq))
    /\ UNCHANGED <<download_vars, now, store_vars, search_vars, scholar, peer>>

TitleChars == {"A", "a", " ", "\t"}

RECURSIVE TitlesOf(_)
TitlesOf(n) ==
    IF n = 0 THEN {<<>>}
    ELSE LET shorter == TitlesOf(n - 1)
         IN  shorter \cup { Append(t, c) : t \in shorter, c \in TitleChars }

NormTitles == TitlesOf(MaxTitleLen)

ProbeTitles == { <<"a">>, <<"a", " ", "a">>, <<"A", "a">>, <<>> }

\* a call of DownloadHistory._normalize_title, the one call of a behaviour
NormalizeTitle ==
    /\ pure = NoPure
    /\ \E t \in NormTitles :
         pure' = PureCall("_normalize_title", <<t>>, _normalize_title(t))
    /\ UNCHANGED <<download_vars, now, store_vars, search_vars, scholar, peer>>

\* add_download of one title into an empty history, then is_downloaded of
\* another
SameDownload ==
    /\ pure = NoPure
    /\ \E t \in NormTitles, u \in ProbeTitles :
         pure' = PureCall("is_downloaded", <<t, u>>,
                     is_downloaded(add_download(EmptyHistory, MissingDoc, t, <<"f">>,
                                                NoneUrl, 0, "ok").history, u))
    /\ UNCHANGED <<download_vars, now, store_vars, search_vars, scholar, peer>>

NextNormalize ==
    \/ NormalizeTitle
    \/ SameDownload

SpecNormalize == Init /\ [][NextNormalize]_vars

NextFilter == FilterPaper

SpecFilter == Init /\ [][NextFilter]_vars

\* the content-length headers of the responses: absent, zero, the length
\* of the body or less, negative, not a number
ContentLengths ==
    { NoneList, SomeList(<<"0">>), SomeList(<<"1">>), SomeList(<<"2">>),
      SomeList(<<" ", "4">>), SomeList(<<"1", "0">>), SomeList(<<"-", "1">>),
      SomeList(<<"x">>) }

RECURSIVE BodiesOf(_)
BodiesOf(n) ==
    IF n = 0 THEN { <<>> }
    ELSE BodiesOf(n - 1)
           \cup { Append(b, c) : b \in BodiesOf(n - 1), c \in 0..MaxChunkSize }

\* the body of a response is streamed into its file
StreamBody ==
    /\ pure = NoPure
    /\ \E header \in ContentLengths, chunks \in BodiesOf(MaxBodyChunks),
          has_callback \in BOOLEAN :
         pure' = PureCall("stream_body", <<header, chunks, has_callback>>,
                          stream_body(header, chunks, has_callback))
    /\ UNCHANGED <<download_vars, now, store_vars, search_vars, scholar, peer>>

NextProgress == StreamBody

SpecProgress == Init /\ [][NextProgress]_vars

-----------------------------------------------------------------------------
(* Helpers of the properties *)

\* the k-th name of the sequence name.pdf, name_1.pdf, name_2.pdf, ...
NthName(base, k) ==
    IF k = 0 THEN base \o PdfExt ELSE base \o <<"_">> \o Decimal(k) \o PdfExt

\* the first name of that sequence the directory fs does not hold
FirstFreeName(fs, base) ==
    LET free == { k \in 0..Cardinality(DOMAIN fs) : NthName(base, k) \notin DOMAIN fs }
    IN  NthName(base, CHOOSE k \in free : \A j \in free : k <= j)

IsDownloadCall(c) == c.op = "download_pdf"

-----------------------------------------------------------------------------
(* C1: download dedup.  Within one process, a successful download_pdf
   leaves a record under the normalized title whose path and date are those
   of that download; the record stays as it is until remove_download or
   clear_history; and a call with a non-empty url for a title whose
   normalized form has a record returns the duplicate outcome with the
   record's date and path, makes no network request and leaves the download
   directory and the history as they were. *)
C1_SuccessRecords ==
    (IsDownloadCall(last') /\ last' # last /\ last'.kind = "success") =>
        LET key == _normalize_title(last'.title)
        IN  /\ key \in DOMAIN history'
            /\ history'[key].file_path = last'.path
            /\ history'[key].date_only = now
            /\ history'[key].has_date_only

C1_RecordsStay ==
    (last'.op \notin {"remove_download", "clear_history", "restart"}) =>
        \A k \in DOMAIN history :
            k \in DOMAIN history' /\ history'[k] = history[k]

C1_HitIsDuplicate ==
    (/\ IsDownloadCall(last') /\ last' # last
     /\ Truthy(last'.url)
     /\ _normalize_title(last'.title) \in DOMAIN history) =>
        LET rec == history[_normalize_title(last'.title)]
        IN  /\ ~last'.raised /\ ~last'.ok
            /\ last'.kind = "duplicate"
            /\ Contains(DupMarker, last'.msg)
            /\ last'.date = rec.date_only
            /\ last'.path = rec.file_path
            /\ \A i \in 1..Len(last'.events) :
                   last'.events[i] \notin {"request", "open", "write"}
            /\ files' = files
            /\ history' = history

C1_Dedup == [][C1_SuccessRecords /\ C1_RecordsStay /\ C1_HitIsDuplicate]_vars

\* a second call, on a later day and with another spelling of the title,
\* was answered as a duplicate of the first
C1_Witness ==
    /\ IsDownloadCall(last) /\ last.kind = "duplicate"
    /\ last.date < now
    /\ history[_normalize_title(last.title)].title # last.title
    /\ Cardinality(DOMAIN files) = 1

-----------------------------------------------------------------------------
(* C2: every record of the download history names a file of the download
   directory whose body was written to its end, by the download of the
   record's title. *)
C2_RecordsHaveFiles ==
    \A k \in DOMAIN history :
        /\ history[k].file_path \in DOMAIN files
        /\ files[history[k].file_path].complete
        /\ files[history[k].file_path].title = history[k].title
        /\ _normalize_title(history[k].title) = k

\* a batch has downloaded a paper while a partial file of a failed download
\* lies in the directory
C2_Witness ==
    /\ DOMAIN history # {}
    /\ batch.pc = "done"
    /\ \E p \in DOMAIN files : ~files[p].complete

-----------------------------------------------------------------------------
(* C3: file names never collide.  No step changes or removes a file the
   directory holds; a successful download is stored under the first free
   name of name.pdf, name_1.pdf, name_2.pdf, ... where name is the sanitized
   title; so two titles with different normalized forms and the same
   sanitized name are stored as name.pdf and name_1.pdf when no other file
   of that name is there. *)
C3_FilesKept ==
    \A p \in DOMAIN files : p \in DOMAIN files' /\ files'[p] = files[p]

C3_FirstFreeName ==
    (IsDownloadCall(last') /\ last' # last /\ last'.kind = "success") =>
        /\ last'.path \notin DOMAIN files
        /\ last'.path = FirstFreeName(files, sanitize_filename(last'.title))
        /\ DOMAIN files' = DOMAIN files \cup {last'.path}

C3_NoOverwrite == [][C3_FilesKept /\ C3_FirstFreeName]_vars

\* two titles with different keys and one sanitized name are both recorded,
\* as name.pdf and as name_1.pdf
C3_Witness ==
    \E k1, k2 \in DOMAIN history :
        /\ k1 # k2
        /\ sanitize_filename(history[k1].title) = sanitize_filename(history[k2].title)
        /\ history[k1].file_path = NthName(sanitize_filename(history[k1].title), 0)
        /\ history[k2].file_path = NthName(sanitize_filename(history[k1].title), 1)
        /\ files[history[k1].file_path].title = history[k1].title
        /\ files[history[k2].file_path].title = history[k2].title

-----------------------------------------------------------------------------
(* C4: download_multiple partitions its input.  While the loop runs and
   when it has returned, the three buckets together hold every paper read
   so far exactly once, each bucket in input order, each entry under the
   title of its paper; on return the three lengths add up to total, the
   length of the input. *)
BucketIndexes(bucket) == { bucket[i].idx : i \in 1..Len(bucket) }

InInputOrder(bucket) ==
    \A i, j \in 1..Len(bucket) : i < j => bucket[i].idx < bucket[j].idx

C4_Partition ==
    /\ batch.pc \in {"loop", "done"} =>
        /\ Len(batch.success) + Len(batch.skipped) + Len(batch.failed) = batch.idx
        /\ BucketIndexes(batch.success) \cup BucketIndexes(batch.skipped)
              \cup BucketIndexes(batch.failed) = 0..(batch.idx - 1)
        /\ InInputOrder(batch.success)
        /\ InInputOrder(batch.skipped)
        /\ InInputOrder(batch.failed)
        /\ \A b \in {batch.success, batch.skipped, batch.failed} :
             \A i \in 1..Len(b) :
                b[i].title = paper_title(batch.papers[b[i].idx + 1], b[i].idx)
    /\ batch.pc = "done" =>
        /\ batch.idx = batch.total
        /\ Len(batch.papers) = batch.total

\* a batch of three papers has returned with one paper in each bucket
C4_Witness ==
    /\ batch.pc = "done" /\ batch.total = 3
    /\ Len(batch.success) = 1 /\ Len(batch.skipped) = 1 /\ Len(batch.failed) = 1

-----------------------------------------------------------------------------
(* C5: a paper is in skipped exactly if download_pdf took the duplicate
   return for it, in success exactly if the download succeeded, and in
   failed for every other return. *)
C5_SkippedIffDuplicate ==
    /\ \A i \in 1..Len(batch.skipped) : batch.skipped[i].kind = "duplicate"
    /\ \A i \in 1..Len(batch.failed) :
          batch.failed[i].kind \in {"no_url", "timeout", "request_error",
                                    "not_pdf", "error"}
    /\ \A i \in 1..Len(batch.success) : batch.success[i].kind = "success"

-----------------------------------------------------------------------------
(* C6: download_multiple works through the papers one after the other.  The
   log of a call is, for i = 0, 1, ... in this order: the progress callback
   with (i, total) when one was given, the begin of the attempt for paper i,
   its end; nothing else, so no attempt begins before the one before it has
   ended. *)
RECURSIVE ExpectedLog(_, _, _)
ExpectedLog(cb, total, n) ==
    IF n = 0 THEN <<>>
    ELSE ExpectedLog(cb, total, n - 1)
         \o (IF cb THEN <<Event("callback", n - 1, total)>> ELSE <<>>)
         \o <<Event("begin", n - 1, 0), Event("end", n - 1, 0)>>

C6_Sequential ==
    /\ batch.pc \in {"idle", "loop", "done"} =>
          batch.log = ExpectedLog(batch.cb, batch.total, batch.idx)
    /\ batch.pc = "raised" =>
          batch.log = ExpectedLog(batch.cb, batch.total, batch.idx)
                      \o (IF batch.cb
                          THEN <<Event("callback", batch.idx, batch.total)>>
                          ELSE <<>>)
                      \o <<Event("begin", batch.idx, 0)>>

\* a batch with a progress callback has processed three papers, one of them
\* downloaded
C6_Witness ==
    /\ batch.pc = "done" /\ batch.cb /\ batch.total = 3
    /\ Len(batch.log) = 9
    /\ Len(batch.success) >= 1

-----------------------------------------------------------------------------
(* C7: download_pdf with an absent url (None or the empty string) returns
   the failure "no PDF link" at once: no request, no file system access, no
   look at the history, and the history, its file and the download
   directory stay as they were, whatever the title and the history are. *)
C7_AbsentUrlStep ==
    (IsDownloadCall(last') /\ last' # last /\ ~Truthy(last'.url)) =>
        /\ ~last'.raised /\ ~last'.ok
        /\ last'.kind = "no_url"
        /\ last'.msg = MsgNoUrl
        /\ last'.path = <<>>
        /\ last'.events = <<>>
        /\ UNCHANGED <<history, disk_doc, files>>

C7_AbsentUrl == [][C7_AbsentUrlStep]_vars

\* download_pdf was called without a url for a title the history holds
C7_Witness ==
    /\ IsDownloadCall(last) /\ last.url = NoneUrl
    /\ last.kind = "no_url"
    /\ is_downloaded(history, last.title)

-----------------------------------------------------------------------------
(* C9: both history stores persist immediately.  Whenever the last operation
   of the download store (add_download, remove_download of a recorded title,
   clear_history) or of the search store (add_search, remove_search of an
   index inside the list, clear_history) returned with its write of the file
   having succeeded, the persisted document is the in-memory store, and
   loading the file anew gives the store back. *)
C9_PersistImmediately ==
    /\ (last.op \in {"add_download", "remove_download", "clear_history"}
           /\ last.save = "ok")
          => /\ disk_doc = JsonDoc(history)
             /\ _load_history(disk_doc) = history
    /\ (slast.op \in {"add_search", "remove_search", "clear_history"}
           /\ slast.save = "ok")
          => /\ search_doc = JsonDoc(searches)
             /\ _load_search_history(search_doc) = searches

\* a query searched a second time is updated where it stands, behind a
\* newer query, and the write of that update succeeded
C9_Witness ==
    /\ slast.op = "add_search" /\ slast.save = "ok"
    /\ Len(searches) = 2
    /\ searches[2].search_count = 2
    /\ search_doc = JsonDoc(searches)

-----------------------------------------------------------------------------
(* C8: download_pdf and download_multiple never raise past the manager
   boundary.  Whatever history the process loaded or built, a call of
   download_pdf returns an outcome with a non-empty message, and every paper
   of a batch gets an entry in the batch's results. *)
C8_NeverRaises ==
    /\ IsDownloadCall(last) => ~last.raised /\ last.msg # <<>>
    /\ batch.pc # "raised"

-----------------------------------------------------------------------------
(* C10, as the claim states it: no engine's search raises; a search whose
   backend failed returns the empty sequence; and a search_all call that has
   returned has searched every requested source it knows, in the order of
   the request, and returns what the filter kept of each, one source after
   the other. *)
RequestedEngines == SelectSeq(search.sources, LAMBDA source : source \in EngineNames)

RECURSIVE KeptOf(_)
KeptOf(runs) == IF runs = <<>> THEN <<>> ELSE Head(runs).kept \o KeptOf(Tail(runs))

NoSourceAborts ==
    /\ search.pc # "raised"
    /\ search.all_papers = KeptOf(search.runs)
    /\ search.pc = "done" =>
          [i \in 1..Len(search.runs) |-> search.runs[i].source] = RequestedEngines

C10_FailureYieldsEmpty ==
    /\ NoSourceAborts
    /\ \A i \in 1..Len(search.runs) :
          search.runs[i].failed => search.runs[i].papers = <<>>

(* C10, amended: no engine's search raises; a search whose backend failed
   returns the papers it had appended before the failure, which are the
   papers a sound backend gives that serves just the records before the
   failure (none when it fails before the first record); and a search_all
   call that has returned has searched every requested source it knows and
   returns what the filter kept of each, one source after the other. *)
BeforeFailure(run) ==
    LET b == run.backend
    IN  CASE run.source = "arxiv" ->
               ArxivBackend(Take(b.feed, b.fail_at), NoFail)
          [] run.source = "openreview" ->
               OpenReviewBackend("ok", HttpOk,
                   IF b.net = "ok" /\ b.status = HttpOk
                   THEN SubSeq(b.notes, 1, FirstBad(Take(b.notes, run.max_results)) - 1)
                   ELSE <<>>)
          [] OTHER -> ScholarBackend(TRUE, "ok", "none", <<>>)

C10_FailureYieldsAccumulated ==
    /\ NoSourceAborts
    /\ \A i \in 1..Len(search.runs) :
          LET run == search.runs[i]
              sound == engine_search(run.source, BeforeFailure(run), run.max_results,
                                     search.start_date, search.end_date)
          IN  run.failed => ~sound.failed /\ run.papers = sound.papers

\* a query whose first source failed after its first record and whose next
\* source answered: the papers of both are returned
C10_Witness ==
    /\ search.pc = "done"
    /\ Len(search.runs) >= 2
    /\ search.runs[1].failed /\ search.runs[1].kept # <<>>
    /\ ~search.runs[2].failed /\ search.runs[2].kept # <<>>
    /\ search.all_papers = KeptOf(search.runs)

-----------------------------------------------------------------------------
(* C11: the filter predicate.  _filter_paper keeps a paper exactly when the
   text title + ' ' + abstract holds, letter case aside, none of the exclude
   terms and, when there are require terms, at least one of them; a paper
   that holds an exclude term is rejected whatever the require terms. *)
HoldsTerm(text, term) ==
    \E i \in 0..(Len(text) - Len(term)) :
        \A j \in 1..Len(term) : LowerChar(text[i + j]) = LowerChar(term[j])

FilterText(paper) == paper.title \o <<" ">> \o paper.abstract

C11_FilterPredicate ==
    pure.fn = "_filter_paper" =>
        LET text == FilterText(pure.args[1])
            ex == pure.args[2]
            rq == pure.args[3]
            excluded == \E i \in 1..Len(ex) : HoldsTerm(text, ex[i])
            required == \E i \in 1..Len(rq) : HoldsTerm(text, rq[i])
        IN  /\ pure.result = (~excluded /\ (rq = <<>> \/ required))
            /\ excluded => ~pure.result

\* a paper that holds a require term, and an exclude term in another letter
\* case, is rejected
C11_Witness ==
    /\ pure.fn = "_filter_paper"
    /\ pure.args[1].title = <<"b", "X">>
    /\ pure.args[2] = << <<"x">> >>
    /\ pure.args[3] = << <<"z">>, <<"X">> >>
    /\ pure.result = FALSE

-----------------------------------------------------------------------------
(* C12, as the claim states it: whatever the call, every paper search_all
   returns satisfies the filter predicate for the call's exclude and require
   terms, and every paper an engine returned that satisfies it is in the
   returned list. *)
Keeps(paper, ex, rq) ==
    /\ \A i \in 1..Len(ex) : ~HoldsTerm(FilterText(paper), ex[i])
    /\ rq = <<>> \/ \E i \in 1..Len(rq) : HoldsTerm(FilterText(paper), rq[i])

Elements(seq) == { seq[i] : i \in 1..Len(seq) }

EnginePapers == UNION { Elements(search.runs[i].papers) : i \in 1..Len(search.runs) }

C12_AlwaysFiltered ==
    /\ \A paper \in Elements(search.all_papers) :
          Keeps(paper, search.exclude_keywords, search.require_keywords)
    /\ \A paper \in EnginePapers :
          Keeps(paper, search.exclude_keywords, search.require_keywords)
              => paper \in Elements(search.all_papers)

(* C12, amended: when Config.ENABLE_SMART_FILTER is on, every paper
   search_all returns satisfies the filter predicate for the call's exclude
   and require terms (a list not given is Config's) and every paper an
   engine returned that satisfies it is in the returned list; when the
   switch is off, every paper an engine returned is in the returned list.
   Either way the filter acts on each source's papers before they are
   merged: what is kept of a source is what the predicate keeps of it. *)
C12_FilteredWhenEnabled ==
    /\ \A paper \in EnginePapers :
          paper \in Elements(search.all_papers)
              <=> (search.smart_filter
                     => Keeps(paper, search.exclude_keywords, search.require_keywords))
    /\ Elements(search.all_papers) \subseteq EnginePapers
    /\ \A i \in 1..Len(search.runs) :
          Elements(search.runs[i].kept)
              = { paper \in Elements(search.runs[i].papers) :
                    search.smart_filter
                      => Keeps(paper, search.exclude_keywords, search.require_keywords) }

\* a query with the switch on, of whose first source one paper is kept and
\* one is dropped
C12_Witness ==
    /\ search.pc = "done"
    /\ search.smart_filter /\ search.exclude_keywords # <<>>
    /\ Len(search.runs) >= 1
    /\ Len(search.runs[1].kept) = 1 /\ Len(search.runs[1].papers) = 2
    /\ search.runs[1].kept[1] \in Elements(search.all_papers)

-----------------------------------------------------------------------------
(* C13: search_all goes through the requested sources in the order of the
   request and skips the identifiers it does not know: the engines called
   so far are the known identifiers among the sources read so far, in that
   order, each as often as it is requested.  The returned list is what was
   kept of the first source, then what was kept of the second, and so on,
   each in the order the engine gave, with nothing sorted and nothing
   dropped as a duplicate.  With an empty list of sources no engine is
   called and the result is empty. *)
SourcesRead == SubSeq(search.sources, 1, search.idx)

\* the first position of all_papers that belongs to the i-th engine call
Offset(i) ==
    LET lens == [j \in 1..Len(search.runs) |-> Len(search.runs[j].kept)]
        sum[j \in 0..Len(search.runs)] == IF j = 0 THEN 0 ELSE sum[j - 1] + lens[j]
    IN  sum[i - 1]

C13_SourceOrder ==
    /\ search.pc # "raised"
    /\ search.pc = "done" => search.idx = Len(search.sources)
    /\ [i \in 1..Len(search.runs) |-> search.runs[i].source]
          = SelectSeq(SourcesRead, LAMBDA source : source \in EngineNames)
    /\ Len(search.all_papers) = Offset(Len(search.runs) + 1)
    /\ \A i \in 1..Len(search.runs) :
          LET run == search.runs[i]
          IN  /\ \A k \in 1..Len(run.kept) :
                    search.all_papers[Offset(i) + k] = run.kept[k]
              /\ run.kept = SelectSeq(run.papers,
                                      LAMBDA paper : paper \in Elements(run.kept))
    /\ search.sources = <<>> => search.runs = <<>> /\ search.all_papers = <<>>

\* a query that names an unknown source and two known ones, both of which
\* found the same title: the title is returned twice, in the order of the
\* sources
C13_Witness ==
    /\ search.pc = "done"
    /\ search.sources = <<"pubmed", "arxiv", "google_scholar">>
    /\ Len(search.runs) = 2
    /\ Len(search.all_papers) = 2
    /\ search.all_papers[1].source = "ArXiv"
    /\ search.all_papers[2].source = "Google Scholar"
    /\ search.all_papers[1].title = search.all_papers[2].title

-----------------------------------------------------------------------------
(* C14: the waits of the browser search are bounded.  While the search
   waits for a block page to clear, and when it gives the wait up, no more
   than the ceiling of 120 seconds plus one polling interval of 2 seconds
   have passed since the wait began; a search that gave a wait up has parsed
   no result, holds no paper, and goes on to nothing but the release of the
   browser and its return with the empty list. *)
Count(seq, x) == Cardinality({ i \in 1..Len(seq) : seq[i] = x })

C14_Bound ==
    /\ scholar.pc = "wait" => scholar.waited <= MaxWait + PollInterval
    /\ scholar.exit = "timeout" =>
          /\ scholar.waited <= MaxWait + PollInterval
          /\ scholar.papers = <<>> /\ scholar.idx = 0 /\ scholar.blocks = <<>>
          /\ Count(scholar.trace, "Parsing") = 0
          /\ Count(scholar.trace, "Navigated") = 1

C14_Abandoned ==
    scholar.exit = "timeout" =>
        \/ scholar' = scholar
        \/ /\ scholar.pc = "finally" /\ scholar'.pc = "returned"
           /\ scholar'.exit = "timeout" /\ scholar'.papers = <<>>
        \/ /\ scholar.pc = "returned" /\ scholar' = session_begin

C14_BoundedWait == [][C14_Bound /\ C14_Bound' /\ C14_Abandoned]_vars

\* the first block page cleared, the second did not in 120 seconds: the
\* search returned without papers
C14_Witness ==
    /\ scholar.pc = "returned" /\ scholar.exit = "timeout"
    /\ scholar.wait = "captcha" /\ scholar.waited = MaxWait
    /\ Count(scholar.trace, "Blocked") = 2
    /\ scholar.papers = <<>>

-----------------------------------------------------------------------------
(* C15: the browser is a scoped resource.  The browser is quit at most
   once, and only by the step that ends the method; a call that has
   returned after it had acquired a browser has quit it exactly once,
   whatever made it return (the end of the loop, a wait given up, a page
   without results, an exception); and the stages the call went through
   follow the order Init, Navigated, Blocked then Unblocked or Timeout,
   Parsing, Released, with Released the last stage and a wait given up
   followed by nothing but Released. *)
Stage(name) ==
    CASE name = "Init" -> 1
      [] name = "Navigated" -> 2
      [] name \in {"Blocked", "Unblocked", "Timeout"} -> 3
      [] name = "Parsing" -> 4
      [] OTHER -> 5

StageFollows(a, b) ==
    CASE a = "Init" -> b \in {"Navigated", "Released"}
      [] a = "Navigated" -> b \in {"Blocked", "Parsing", "Released"}
      [] a = "Blocked" -> b \in {"Unblocked", "Timeout"}
      [] a = "Unblocked" -> b \in {"Blocked", "Parsing", "Released"}
      [] a = "Timeout" -> b = "Released"
      [] a = "Parsing" -> b = "Released"
      [] OTHER -> FALSE

Acquired == scholar.driver # "none"

C15_ScopedBrowser ==
    /\ scholar.quits <= 1
    /\ scholar.quits = 1 <=> scholar.driver = "quit"
    /\ scholar.driver = "quit" <=> (scholar.pc = "returned" /\ Acquired)
    /\ Count(scholar.trace, "Released") = scholar.quits
    /\ scholar.driver = "quit" =>
          /\ scholar.trace[Len(scholar.trace)] = "Released"
          /\ scholar.exit \in {"done", "timeout", "no_results", "exception"}
    /\ InSession => scholar.trace[1] = "Init"
    /\ \A i \in 1..(Len(scholar.trace) - 1) :
          /\ Stage(scholar.trace[i]) <= Stage(scholar.trace[i + 1])
          /\ StageFollows(scholar.trace[i], scholar.trace[i + 1])

\* a call whose block page cleared and whose next page read raised: the
\* browser was quit on the way out
C15_Witness ==
    /\ scholar.pc = "returned" /\ scholar.exit = "exception"
    /\ scholar.quits = 1 /\ scholar.driver = "quit"
    /\ scholar.trace = <<"Init", "Navigated", "Blocked", "Unblocked", "Released">>

-----------------------------------------------------------------------------
(* C16: the fetch of a full abstract is scoped.  A round of the loop over
   the result blocks, with whatever _fetch_full_abstract did and wherever it
   failed, leaves the set of open tabs and the tab that has the focus as
   they were before it. *)
C16_TabsRestored ==
    [][(scholar.pc = "parsing" /\ scholar'.pc = "parsing"
        /\ scholar'.idx = scholar.idx + 1) =>
           /\ scholar'.tabs = scholar.tabs
           /\ scholar'.focus = scholar.focus]_vars

-----------------------------------------------------------------------------
(* C17: no engine returns a paper without a title.  Every paper an engine
   has returned to search_all, and so every paper search_all has passed to
   the filter or returned, has a title that is not empty. *)
C17_TitlesNonEmpty ==
    /\ \A i \in 1..Len(search.runs) :
          \A k \in 1..Len(search.runs[i].papers) :
              search.runs[i].papers[k].title # <<>>
    /\ \A k \in 1..Len(search.all_papers) : search.all_papers[k].title # <<>>

-----------------------------------------------------------------------------
(* C18: _normalize_title is idempotent and does not see case or the layout
   of whitespace.  The normalized form of a title is its own normalized
   form; a title that differs from another by the case of one letter, by one
   whitespace character more at an end or next to a whitespace character, or
   by another whitespace character in the place of one, has the same
   normalized form; "  Deep  Learning " and "deep learning" have the same
   one; and a title counts as downloaded after the download of another
   exactly when the normalized forms of the two are equal. *)
SwapCase(c) ==
    IF \E i \in 1..Len(UpperCase) : UpperCase[i] = c
    THEN LowerCase[CHOOSE i \in 1..Len(UpperCase) : UpperCase[i] = c]
    ELSE IF \E i \in 1..Len(LowerCase) : LowerCase[i] = c
         THEN UpperCase[CHOOSE i \in 1..Len(LowerCase) : LowerCase[i] = c]
         ELSE c

Blanks(t) == { i \in 1..Len(t) : t[i] \in {" ", "\t"} }

Variants(t) ==
    { [t EXCEPT ![i] = SwapCase(t[i])] : i \in 1..Len(t) }
      \cup { <<w>> \o t : w \in {" ", "\t"} }
      \cup { t \o <<w>> : w \in {" ", "\t"} }
      \cup { SubSeq(t, 1, i) \o <<w>> \o SubSeq(t, i + 1, Len(t)) :
                i \in Blanks(t), w \in {" ", "\t"} }
      \cup { [t EXCEPT ![i] = w] : i \in Blanks(t), w \in {" ", "\t"} }

DeepLearning ==
    <<" ", " ", "D", "e", "e", "p", " ", " ", "L", "e", "a", "r", "n", "i", "n", "g", " ">>

C18_Normalize ==
    /\ pure.fn = "_normalize_title" =>
          /\ _normalize_title(pure.result) = pure.result
          /\ \A u \in Variants(pure.args[1]) : _normalize_title(u) = pure.result
          /\ _normalize_title(DeepLearning)
                = _normalize_title(<<"d", "e", "e", "p", " ", "l", "e", "a", "r", "n", "i", "n", "g">>)
    /\ pure.fn = "is_downloaded" =>
          pure.result = (_normalize_title(pure.args[1]) = _normalize_title(pure.args[2]))

\* a title with a capital, two whitespace characters in a row and one at
\* the end
C18_Witness ==
    /\ pure.fn = "_normalize_title"
    /\ pure.args[1] = <<"A", " ", "\t", "a">>
    /\ pure.result = <<"a", " ", "a">>

-----------------------------------------------------------------------------
(* C19: the search history is capped.  A list that started with at most
   100 records never holds more than 100; a new query added to a list of
   100 goes to the front, the first 99 records follow it as they were, and
   the record that is gone is the last of the list, which no record of the
   list precedes in its first search; a new query added to a shorter list
   drops nothing. *)
NewQueryAdded ==
    /\ searches' # <<>>
    /\ \A i \in 1..Len(searches) :
          ~SameQuery(searches[i], searches'[1].keywords, searches'[1].exclude_keywords)

C19_Capped == Len(searches) <= HistoryCap

C19_DropsLast ==
    NewQueryAdded =>
        /\ searches'[1].search_count = 1
        /\ Len(searches) < HistoryCap => Tail(searches') = searches
        /\ Len(searches) = HistoryCap =>
              /\ Tail(searches') = SubSeq(searches, 1, HistoryCap - 1)
              /\ \A i \in 1..Len(searches) :
                    searches[HistoryCap].first_search_time
                        <= searches[i].first_search_time

C19_Cap == [][C19_Capped /\ C19_Capped' /\ C19_DropsLast]_vars

\* two new queries were added to the list of the file: it has 100 records,
\* the two at the front, and the last records of the file are gone
C19_Witness ==
    /\ Len(searches) = HistoryCap
    /\ searches[1].keywords = <<"k">> /\ searches[2].keywords = <<"k">>
    /\ searches[3] = StoredSearch(1)
    /\ searches[HistoryCap] = StoredSearch(HistoryCap - 2)
    /\ search_doc = JsonDoc(searches)

-----------------------------------------------------------------------------
(* C20: the search history is ordered most-recent-first.  After any
   sequence of add_search calls no record of the list was searched later
   than a record before it; get_last_search returns a record that no other
   was searched after, and get_recent_searches(n) returns records that none
   of the records it leaves out was searched after. *)
C20_MostRecentFirst ==
    /\ \A i, j \in 1..Len(searches) :
          i < j => searches[i].last_search_time >= searches[j].last_search_time
    /\ \A r \in get_last_search(searches) :
          \A i \in 1..Len(searches) : r.last_search_time >= searches[i].last_search_time
    /\ \A n \in 0..Len(searches) :
          LET recent == get_recent_searches(searches, n)
          IN  \A k \in 1..Len(recent) :
                 \A i \in (n + 1)..Len(searches) :
                    recent[k].last_search_time >= searches[i].last_search_time

-----------------------------------------------------------------------------
(* C21: the search history merges by the pair of keywords and excluded
   keywords.  In a history that started empty no two records have the same
   pair.  add_search of a pair the list holds leaves the length of the list
   and every other record as they were, and of the record of the pair the
   first search time; it adds exactly 1 to its search count and sets its
   last search time, sources and result count to those of the call.
   add_search of a pair the list does not hold puts one record of that pair,
   with search count 1, before the records of the list. *)
PairAt(sh, i, call) ==
    sh[i].keywords = call.keywords /\ sh[i].exclude_keywords = call.exclude_keywords

C21_NoTwins ==
    \A i, j \in 1..Len(searches) :
        (/\ searches[i].keywords = searches[j].keywords
         /\ searches[i].exclude_keywords = searches[j].exclude_keywords) => i = j

C21_AddMerges ==
    (slast'.op = "add_search" /\ searches' # searches) =>
        LET call == slast'
            given == IF call.sources.none THEN <<>> ELSE call.sources.list
        IN  IF \E i \in 1..Len(searches) : PairAt(searches, i, call)
            THEN /\ Len(searches') = Len(searches)
                 /\ \A i \in 1..Len(searches) :
                       IF PairAt(searches, i, call)
                       THEN /\ PairAt(searches', i, call)
                            /\ searches'[i].first_search_time = searches[i].first_search_time
                            /\ searches'[i].search_count = searches[i].search_count + 1
                            /\ searches'[i].last_search_time = now
                            /\ searches'[i].sources = given
                            /\ searches'[i].results_count = call.results_count
                       ELSE searches'[i] = searches[i]
            ELSE /\ Len(searches') = Len(searches) + 1
                 /\ Tail(searches') = searches
                 /\ PairAt(searches', 1, call)
                 /\ searches'[1].search_count = 1
                 /\ searches'[1].first_search_time = now
                 /\ searches'[1].last_search_time = now
                 /\ searches'[1].sources = given
                 /\ searches'[1].results_count = call.results_count

C21_Merge == [][C21_NoTwins /\ C21_NoTwins' /\ C21_AddMerges]_vars

\* a query searched on day 0 with one result and again on day 1 with none,
\* with another query first searched in between
C21_Witness ==
    /\ Len(searches) = 2
    /\ searches[2].search_count = 2
    /\ searches[2].first_search_time = 0 /\ searches[2].last_search_time = 1
    /\ searches[2].results_count = 0 /\ searches[2].sources = <<>>
    /\ slast.op = "add_search" /\ slast.keywords = searches[2].keywords

-----------------------------------------------------------------------------
(* C22: a history file that is missing or cannot be parsed is an empty
   store.  The start of a process does not raise; it leaves the download
   history the empty map when its file is missing or corrupt, and the search
   history the empty list when its file is; and the first add_download or
   add_search after such a start does what it does in a fresh installation:
   it returns, the store holds the one record of the call, and a write that
   succeeds leaves that store in the file. *)
Unreadable(doc) == doc.kind \in {"missing", "corrupt"}

C22_LoadsEmpty ==
    (last'.op = "restart" /\ slast'.op = "restart") =>
        /\ ~last'.raised
        /\ Unreadable(disk_doc) => history' = EmptyHistory
        /\ Unreadable(search_doc) => searches' = <<>>

C22_ThenAsFresh ==
    /\ (last.op = "restart" /\ Unreadable(disk_doc) /\ last'.op = "add_download") =>
          /\ ~last'.raised
          /\ DOMAIN history' = {_normalize_title(last'.title)}
          /\ history'[_normalize_title(last'.title)].title = last'.title
          /\ last'.save = "ok" => disk_doc' = JsonDoc(history')
    /\ (slast.op = "restart" /\ Unreadable(search_doc) /\ slast'.op = "add_search") =>
          /\ Len(searches') = 1
          /\ searches'[1].keywords = slast'.keywords
          /\ searches'[1].search_count = 1
          /\ slast'.save = "ok" => search_doc' = JsonDoc(searches')

C22_CorruptIsEmpty == [][C22_LoadsEmpty /\ C22_ThenAsFresh]_vars

\* a process that started on a download history file cut short by a failed
\* write: the record the file was to hold is not in its history
C22_Witness ==
    /\ last.op = "restart" /\ slast.op = "restart"
    /\ disk_doc = CorruptDoc
    /\ history = EmptyHistory

-----------------------------------------------------------------------------
(* C23: a history file that cannot be written leaves a store in memory.
   A download_pdf call that got as far as the write of the history file
   returns success with the path of its file, and the history in memory
   holds its record, whether or not that write left the history in the
   file; remove_download and clear_history return with the record, or all
   records, gone from memory whatever became of their write; and while the
   file does not hold the history in memory, a download_pdf call for a title
   the memory has a record of is still answered as a duplicate, with the
   path of that record. *)
Unsaved == disk_doc # JsonDoc(history)

C23_Step ==
    /\ (IsDownloadCall(last') /\ last' # last
        /\ \E i \in 1..Len(last'.events) : last'.events[i] = "save") =>
          LET key == _normalize_title(last'.title)
          IN  /\ ~last'.raised /\ last'.ok /\ last'.kind = "success"
              /\ key \in DOMAIN history'
              /\ history'[key].file_path = last'.path
              /\ last'.path \in DOMAIN files'
    /\ (last'.op = "remove_download" /\ last' # last) =>
          /\ ~last'.raised
          /\ _normalize_title(last'.title) \notin DOMAIN history'
    /\ (last'.op = "clear_history" /\ last' # last) =>
          /\ ~last'.raised /\ history' = EmptyHistory
    /\ (IsDownloadCall(last') /\ last' # last /\ Unsaved /\ Truthy(last'.url)
        /\ _normalize_title(last'.title) \in DOMAIN history
        /\ history[_normalize_title(last'.title)].has_date_only) =>
          /\ ~last'.raised /\ last'.kind = "duplicate"
          /\ last'.path = history[_normalize_title(last'.title)].file_path
          /\ history' = history

C23_WriteFailureNotFatal == [][C23_Step]_vars

\* a duplicate answered from a record that no write ever got into the file
C23_Witness ==
    /\ IsDownloadCall(last) /\ last.kind = "duplicate"
    /\ disk_doc.kind \in {"missing", "corrupt"}
    /\ _normalize_title(last.title) \in DOMAIN history
    /\ last.path = history[_normalize_title(last.title)].file_path

-----------------------------------------------------------------------------
(* C24, as the claim states it: of the records the arXiv and the OpenReview
   backend hold for a search, one with a known date is returned exactly when
   the date is within the bounds that were given. *)
DatedRuns == { i \in 1..Len(search.runs) : search.runs[i].source \in {"arxiv", "openreview"} }

RecordsOf(run) ==
    IF run.source = "arxiv" THEN run.backend.feed ELSE run.backend.notes

RecordUrl(run, record) ==
    IF run.source = "arxiv" THEN record.entry_id
    ELSE <<"forum?id=">> \o record.id

RecordDate(run, record) ==
    IF run.source = "arxiv" THEN record.published ELSE record.cdate

Returned(run, record) ==
    \E k \in 1..Len(run.papers) : run.papers[k].url = RecordUrl(run, record)

Within(d) ==
    /\ (search.start_date = NoDate \/ d >= search.start_date)
    /\ (search.end_date = NoDate \/ d <= search.end_date)

C24_ReturnedIffInRange ==
    \A i \in DatedRuns :
        LET run == search.runs[i]
            records == RecordsOf(run)
        IN  \A j \in 1..Len(records) :
               RecordDate(run, records[j]) # NoDate =>
                  (Returned(run, records[j]) <=> Within(RecordDate(run, records[j])))

(* C24, amended: every paper the two engines return comes from a record of
   the backend, in the backend's order and at most once, and its date, when
   it has one, is within the bounds, the bounds included; and when the
   backend answered without a failure and with no more records than the
   ceiling of results, every record that has a title (OpenReview: not "No
   Title") and whose date is within the bounds or absent is returned. *)
Usable(run, record) ==
    run.source = "arxiv" \/ (record.title # <<>> /\ record.title # NoTitle)

Answered(run) ==
    /\ Len(RecordsOf(run)) <= run.max_results
    /\ IF run.source = "arxiv" THEN run.backend.fail_at = NoFail
       ELSE /\ run.backend.net = "ok" /\ run.backend.status = HttpOk
            /\ \A j \in 1..Len(run.backend.notes) : run.backend.notes[j].well_formed

C24_DateRange ==
    \A i \in DatedRuns :
        LET run == search.runs[i]
            records == RecordsOf(run)
            urls == [j \in 1..Len(records) |-> RecordUrl(run, records[j])]
            got == { run.papers[k].url : k \in 1..Len(run.papers) }
        IN  /\ [k \in 1..Len(run.papers) |-> run.papers[k].url]
                  = SelectSeq(urls, LAMBDA u : u \in got)
            /\ \A k \in 1..Len(run.papers) :
                  run.papers[k].published # NoDate => Within(run.papers[k].published)
            /\ \A j \in 1..Len(records) :
                  Returned(run, records[j]) =>
                     \E k \in 1..Len(run.papers) :
                        /\ run.papers[k].url = urls[j]
                        /\ run.papers[k].published = RecordDate(run, records[j])
            /\ Answered(run) =>
                  \A j \in 1..Len(records) :
                     (/\ Usable(run, records[j])
                      /\ (RecordDate(run, records[j]) = NoDate
                             \/ Within(RecordDate(run, records[j])))) =>
                        Returned(run, records[j])

\* a search from day 1 on: OpenReview returned its note of day 1 and its
\* note without a date, arXiv its result of day 1 and not the one of day 0
C24_Witness ==
    /\ search.pc = "done" /\ search.start_date = 1
    /\ Len(search.runs) = 2
    /\ search.runs[1].source = "openreview" /\ Answered(search.runs[1])
    /\ Len(search.runs[1].papers) = 2
    /\ search.runs[1].papers[2].published = NoDate
    /\ search.runs[2].source = "arxiv" /\ Answered(search.runs[2])
    /\ Len(search.runs[2].backend.feed) = 2
    /\ Len(search.runs[2].papers) = 1
    /\ search.runs[2].papers[1].published = 1

-----------------------------------------------------------------------------
(* C25: the ceiling of results is read at every call of an engine: an engine
   call returns no more papers than Config.MAX_RESULTS holds at the moment
   of the call, whatever the value was when the engine was constructed and
   whatever it was at earlier calls. *)
EngineCalled == Len(search'.runs) = Len(search.runs) + 1

C25_Step ==
    EngineCalled =>
        LET run == search'.runs[Len(search'.runs)]
        IN  /\ Len(run.papers) <= config.MAX_RESULTS
            /\ run.max_results = config.MAX_RESULTS

C25_CeilingReadFresh == [][C25_Step]_vars

\* Config.MAX_RESULTS was set from 100 to 1 at runtime: the three engines,
\* constructed before, each returned one paper of the two or more on offer
C25_Witness ==
    /\ config.MAX_RESULTS = 1 /\ DefaultConfig.MAX_RESULTS # 1
    /\ search.pc = "done" /\ Len(search.runs) = 3
    /\ \A i \in 1..3 :
          /\ search.runs[i].max_results = 1
          /\ Len(search.runs[i].papers) = 1
    /\ search.runs[1].source = "arxiv"
    /\ Len(search.runs[1].backend.feed) = 2
    /\ search.runs[2].source = "openreview"
    /\ Len(search.runs[2].backend.notes) >= 2
    /\ search.runs[3].source = "google_scholar"
    /\ Len(search.runs[3].backend.blocks) >= 2

-----------------------------------------------------------------------------
(* C26: a download_pdf call that does not end in success (no url, a
   duplicate, a timeout, a transport error, an HTTP error status, a response
   that is not a PDF, an error of the file system) leaves the download
   history as it was, in memory and in the file; and a call that ends
   because the response is not a PDF leaves the download directory as it
   was, too. *)
C26_Step ==
    (IsDownloadCall(last') /\ last' # last /\ last'.kind # "success") =>
        /\ ~last'.ok
        /\ history' = history
        /\ disk_doc' = disk_doc
        /\ last'.kind = "not_pdf" => files' = files

C26_FailureLeavesHistory == [][C26_Step]_vars

\* the response was not a PDF: the history, one record in memory and in the
\* file, has no record of the title, and no file was made for it
C26_Witness ==
    /\ IsDownloadCall(last) /\ last.kind = "not_pdf" /\ ~last.ok
    /\ Cardinality(DOMAIN history) = 1
    /\ disk_doc = JsonDoc(history)
    /\ ~is_downloaded(history, last.title)
    /\ Cardinality(DOMAIN files) = 1

-----------------------------------------------------------------------------
(* C27: partial success of the browser engine.  A round of the loop over the
   result blocks either appends the paper of its block or, when the block
   has no heading or raises, leaves the papers as they are, and the loop
   goes on with the next block; every other step of the session, an
   exception taken to the handler of the method and the release of the
   browser included, leaves the papers as they are; so the papers of a
   session, at its return too, are those of the blocks parsed so far that
   could be parsed, in the order of the page, and the session ends returned,
   never raised. *)
Parsed(s) == SelectSeq(SubSeq(s.blocks, 1, s.idx), LAMBDA blk : blk.kind = "ok")

Accumulated(s) ==
    /\ Len(s.papers) = Len(Parsed(s))
    /\ \A k \in 1..Len(s.papers) :
          /\ s.papers[k].title = scholar_title(Parsed(s)[k].title)
          /\ s.papers[k].url = Parsed(s)[k].href

C27_Step ==
    /\ Accumulated(scholar')
    /\ scholar.pc = "parsing" /\ scholar.idx < Len(scholar.blocks) =>
          /\ scholar'.pc = "parsing" /\ scholar'.idx = scholar.idx + 1
          /\ IF scholar.blocks[scholar.idx + 1].kind = "ok"
             THEN /\ Len(scholar'.papers) = Len(scholar.papers) + 1
                  /\ SubSeq(scholar'.papers, 1, Len(scholar.papers)) = scholar.papers
             ELSE scholar'.papers = scholar.papers
    /\ (InSession /\ ~(scholar.pc = "parsing" /\ scholar.idx < Len(scholar.blocks))) =>
          /\ scholar'.papers = scholar.papers
          /\ scholar'.pc # "idle"
    /\ scholar.pc = "finally" => scholar'.pc = "returned"

C27_PartialSuccess == [][C27_Step]_vars

\* a page of three blocks whose second raised: the papers of the first and
\* of the third were returned
C27_Witness ==
    /\ scholar.pc = "returned" /\ scholar.exit = "done"
    /\ Len(scholar.blocks) = 3 /\ scholar.idx = 3
    /\ scholar.blocks[2].kind = "malformed"
    /\ Len(scholar.papers) = 2
    /\ scholar.papers[1].url = scholar.blocks[1].href
    /\ scholar.papers[2].url = scholar.blocks[3].href

-----------------------------------------------------------------------------
(* C28: the history file is read at construction and rewritten whole at
   every record, with no lock: the last writer wins.  When a process records
   a download, the file afterwards holds the history that process has in
   memory and nothing else, so a record another process had written and
   this process never loaded is gone from the file; and a process answers
   "duplicate" from the history it has in memory alone, so a title one
   process has downloaded is downloaded again by a process whose memory,
   loaded from the file, has no record of it. *)
FileKeys(doc) == DOMAIN _load_history(doc)

C28_Step ==
    /\ (IsDownloadCall(last') /\ last' # last /\ last'.kind = "success") =>
          /\ disk_doc' = JsonDoc(history')
          /\ \A k \in DOMAIN peer.history \ DOMAIN history' : k \notin FileKeys(disk_doc')
    /\ (peer.running /\ peer'.last # peer.last /\ peer'.last.kind = "success") =>
          /\ disk_doc' = JsonDoc(peer'.history)
          /\ \A k \in DOMAIN history \ DOMAIN peer'.history : k \notin FileKeys(disk_doc')
    /\ (peer.running /\ peer'.last # peer.last /\ IsDownloadCall(peer'.last)) =>
          (peer'.last.kind = "duplicate" <=> is_downloaded(peer.history, peer'.last.title))
    /\ (~peer.running /\ peer'.running) => peer'.history = _load_history(disk_doc)

C28_LastWriterWins == [][C28_Step]_vars

\* the first process recorded a title on day 0; the second process, which
\* loaded the file on day 1 and found no record of the title in it,
\* downloaded the title again, to another file, and the file of the history
\* now is what the second process has in memory
C28_Witness ==
    /\ peer.running /\ peer.loaded_day = 1
    /\ IsDownloadCall(peer.last) /\ peer.last.kind = "success"
    /\ LET key == _normalize_title(peer.last.title)
       IN  /\ key \in DOMAIN history
           /\ history[key].download_date = 0
           /\ key \notin DOMAIN peer.base
           /\ peer.base # EmptyHistory
           /\ key \in DOMAIN peer.history
           /\ peer.history[key].file_path # history[key].file_path
           /\ history[key].file_path \in DOMAIN files
           /\ peer.history[key].file_path \in DOMAIN files
    /\ disk_doc = JsonDoc(peer.history)
    /\ disk_doc # JsonDoc(history)

-----------------------------------------------------------------------------
(* C29: the progress callback of download_pdf is called with percentages
   between 0 and 100 only, each at least the one before, and only when the
   content-length of the response is positive; when the content-length is
   absent or 0 the callback is not called and the body is stored all the
   same. *)
Streamed == pure.fn = "stream_body"

C29_Progress ==
    Streamed =>
        LET header == pure.args[1]
            chunks == pure.args[2]
            calls == pure.result.calls
            total == total_size_of(header)
        IN  /\ \A k \in 1..Len(calls) :
                  /\ 0 <= calls[k].num
                  /\ calls[k].num <= 100 * calls[k].den
            /\ \A k \in 1..(Len(calls) - 1) :
                  calls[k].num * calls[k + 1].den <= calls[k + 1].num * calls[k].den
            /\ calls # <<>> => (~total.raised /\ total.value > 0)
            /\ (header.none \/ (~total.raised /\ total.value = 0)) =>
                  /\ calls = <<>>
                  /\ pure.result.completed
                  /\ pure.result.written = written_size(chunks)

-----------------------------------------------------------------------------
(* C30: a download_pdf call that fails after it has opened its file (the
   stream or a write breaks off) leaves that file, incomplete, in the
   download directory and leaves the history as it was; no call changes or
   replaces a file that is there; a call for a title the history has no
   record of is not answered as a duplicate, whatever files are there; a
   call that succeeds stores the body in a file that was not there before,
   under the first free one of name.pdf, name_1.pdf, ..., and records that
   path; so a path the history records is never that of an incomplete
   file. *)
Has(events, e) == \E i \in 1..Len(events) : events[i] = e

BrokeOff(call) == call.kind # "success" /\ Has(call.events, "close")

RecordedWhole(h, fs) ==
    \A k \in DOMAIN h :
        h[k].file_path \in DOMAIN fs => fs[h[k].file_path].complete

C30_Step ==
    (IsDownloadCall(last') /\ last' # last) =>
        /\ \A path \in DOMAIN files : path \in DOMAIN files' /\ files'[path] = files[path]
        /\ BrokeOff(last') =>
              /\ history' = history /\ disk_doc' = disk_doc
              /\ \E path \in DOMAIN files' \ DOMAIN files :
                    /\ DOMAIN files' = DOMAIN files \cup {path}
                    /\ ~files'[path].complete
                    /\ path = choose_filepath(files, last'.title)
        /\ (Truthy(last'.url) /\ ~is_downloaded(history, last'.title)) =>
              last'.kind # "duplicate"
        /\ last'.kind = "success" =>
              /\ last'.path \notin DOMAIN files
              /\ last'.path = choose_filepath(files, last'.title)
              /\ files'[last'.path].complete
              /\ history'[_normalize_title(last'.title)].file_path = last'.path
        /\ RecordedWhole(history', files')

C30_PartialFileLeft == [][C30_Step]_vars

\* the download of a title broke off and left an incomplete A.pdf; the
\* next download of the title succeeded, went to A_1.pdf and was recorded
\* there
C30_Witness ==
    /\ IsDownloadCall(last) /\ last.kind = "success"
    /\ LET name == sanitize_filename(last.title)
           key == _normalize_title(last.title)
       IN  /\ (name \o PdfExt) \in DOMAIN files
           /\ ~files[name \o PdfExt].complete
           /\ files[name \o PdfExt].title = last.title
           /\ last.path = name \o <<"_", "1">> \o PdfExt
           /\ files[last.path].complete
           /\ key \in DOMAIN history
           /\ history[key].file_path = last.path

=============================================================================
